---- MODULE Spec2Model ----
(***************************************************************************)
(* Model of the excel-reader-mcp engine: the image extractor (format       *)
(* detection, the OOXML pipeline, the legacy OLE2 pipeline, the            *)
(* correlator and the size budget) and the tabular reader / sheet lister.  *)
(* Every entry point transforms a file and its arguments into a result or  *)
(* an error; no state persists between calls.  extractImages and the       *)
(* CallTool handler are async functions: a call on a ZIP package is        *)
(* suspended at each await and other calls run in between.                 *)
(***************************************************************************)
EXTENDS Integers, Sequences, FiniteSets, TLC

VARIABLES op, file, args, result, pages, inflight

vars == <<op, file, args, result, pages, inflight>>

(***************************************************************************)
(* Bounds of the model.                                                    *)
(***************************************************************************)
MaxBlips == 2      \* images yielded by the global store of one .xls file
MaxAnchors == 2    \* anchors (legacy) / image mappings (OOXML) of one file
MaxMedia == 2      \* xl/media entries of one .xlsx file
MaxRecords == 3    \* BIFF records in a workbook stream of the record reader
MaxCut == 5        \* bytes missing at the end of a workbook stream
MaxRows == 3       \* data rows of one worksheet
MaxStream == 6     \* records of a workbook stream with sub-streams
MaxShapes == 2     \* shapes of the drawing data handed to the drawing parser
MaxBase == 2       \* characters of the base directory of a path resolution
MaxTarget == 5     \* characters of the target of a path resolution
MaxElements == 2   \* anchor elements of one drawing part
MaxInFlight == 2   \* calls suspended at an await at one time

(***************************************************************************)
(* Generic helpers.                                                        *)
(***************************************************************************)
None == "<undefined>"

Range(s) == {s[i] : i \in DOMAIN s}

SeqsUpTo(S, n) == UNION {[1..k -> S] : k \in 0..n}

\* Strings are JavaScript strings; positions count from 1 here.
\* str.charAt(k - 1)
CharAt(str, k) == SubSeq(str, k, k)

\* str.startsWith(prefix)
StartsWith(str, prefix) ==
    Len(str) >= Len(prefix) /\ SubSeq(str, 1, Len(prefix)) = prefix

\* str.slice(n)
Slice(str, n) == SubSeq(str, n + 1, Len(str))

UpperCaseLetters == "ABCDEFGHIJKLMNOPQRSTUVWXYZ"

LowerCaseLetters == "abcdefghijklmnopqrstuvwxyz"

\* str.toLowerCase(), for the strings of ASCII characters
RECURSIVE ToLowerCase(_)
ToLowerCase(str) ==
    IF str = "" THEN ""
    ELSE LET c == CharAt(str, 1)
             upper == {i \in 1..Len(UpperCaseLetters) : CharAt(UpperCaseLetters, i) = c}
         IN  (IF upper = {} THEN c
              ELSE CharAt(LowerCaseLetters, CHOOSE i \in upper : TRUE))
             \o ToLowerCase(Slice(str, 1))

Min(a, b) == IF a < b THEN a ELSE b

Max(a, b) == IF a > b THEN a ELSE b

RECURSIVE SumSeq(_)
SumSeq(s) == IF s = <<>> THEN 0 ELSE Head(s) + SumSeq(Tail(s))

IsPrefix(s, t) == Len(s) <= Len(t) /\ SubSeq(t, 1, Len(s)) = s

\* JavaScript truthiness of an optional string argument: undefined and the
\* empty string are falsy.
Truthy(s) == s # None /\ s # ""

(***************************************************************************)
(* Program constants.                                                      *)
(***************************************************************************)
MAX_IMAGES_SIZE == 10 * 1024 * 1024

MAX_RESPONSE_SIZE == 100 * 1024

ESCHER_BLIP_EMF == 61466
ESCHER_BLIP_WMF == 61467
ESCHER_BLIP_PICT == 61468
ESCHER_BLIP_JPEG == 61469
ESCHER_BLIP_PNG == 61470
ESCHER_BLIP_DIB == 61471
ESCHER_BLIP_TIFF == 61481
ESCHER_BLIP_JPEG2 == 61482

\* Number of leading bytes the format detector needs.
BIFF_MSODRAWINGGROUP == 235
BIFF_MSODRAWING == 236
BIFF_CONTINUE == 60
BIFF_BOF == 2057
BIFF_EOF == 10
ESCHER_DGG_CONTAINER == 61440
ESCHER_BSTORE_CONTAINER == 61441
ESCHER_SP_CONTAINER == 61444
ESCHER_BSE == 61447
ESCHER_CLIENT_ANCHOR == 61456
ESCHER_OPT == 61451
ESCHER_FOPT == 61730
PROP_ID_MASK == 16384
PROP_BLIP_ID == 260
MagicLen == 4

ZipMagic == <<80, 75, 3, 4>>        \* 50 4B 03 04

Ole2Magic == <<208, 207, 17, 224>>  \* D0 CF 11 E0

(***************************************************************************)
(* Errors and results.                                                     *)
(***************************************************************************)
NoResult == [kind |-> "none"]

\* An McpError(code, message); via = the pipeline that raised it.
McpError(code, message, via) ==
    [kind |-> "error", code |-> code, message |-> message, via |-> via]

\* A plain Error thrown by the code (excel-reader) or by a library
\* (JSZip, SheetJS, CFB) on input it cannot read.
PlainError(message, via) ==
    [kind |-> "error", code |-> "Error", message |-> message, via |-> via]

ImagesResult(images, truncated, via) ==
    [kind |-> "ok", images |-> images, truncated |-> truncated, via |-> via]

\* Length of Buffer.toString('base64') / JSZip async("base64") for n raw bytes.
Base64Length(n) == 4 * ((n + 2) \div 3)

(***************************************************************************)
(* Shared pieces of the two image pipelines.                               *)
(***************************************************************************)
\* Mutant of FileMissing: the existence check is left out.
FileMissingNever(f) == FALSE

\* !existsSync(filePath)
FileMissing(f) == ~f.exists

\* Mutant of SheetMissing: the workbook's names are not consulted.
SheetMissingAnyFilter(sheetName, sheetNames) == Truthy(sheetName)

\* Mutant of SheetMissing: the sheet-name check is left out.
SheetMissingNever(sheetName, sheetNames) == FALSE

\* sheetName && !sheetNames.includes(sheetName)
SheetMissing(sheetName, sheetNames) ==
    Truthy(sheetName) /\ sheetName \notin Range(sheetNames)

\* Mutant of SheetSkipped: the sheet filter is not applied to the anchors.
SheetSkippedNever(sheetName, currentSheetName) == FALSE

\* sheetName && currentSheetName !== sheetName  (the loop's `continue`)
SheetSkipped(sheetName, currentSheetName) ==
    Truthy(sheetName) /\ currentSheetName # sheetName

\* Mutant of OverBudget: the running total is forgotten.
OverBudgetAlone(totalSize, length, limit) == length > limit

\* totalSize + data.length > MAX_IMAGES_SIZE, with the ceiling as a parameter
OverBudget(totalSize, length, limit) == totalSize + length > limit

Position(sheet, a) ==
    [sheet |-> sheet, fromRow |-> a.fromRow, fromCol |-> a.fromCol,
     toRow |-> a.toRow, toCol |-> a.toCol]

(***************************************************************************)
(* Legacy (.xls) pipeline: extractXlsImages.                               *)
(***************************************************************************)
getMimeAndExt(blipType) ==
    CASE blipType = ESCHER_BLIP_EMF -> [mimeType |-> "image/x-emf", extension |-> ".emf"]
      [] blipType = ESCHER_BLIP_WMF -> [mimeType |-> "image/x-wmf", extension |-> ".wmf"]
      [] blipType = ESCHER_BLIP_PICT -> [mimeType |-> "image/pict", extension |-> ".pict"]
      [] blipType \in {ESCHER_BLIP_JPEG, ESCHER_BLIP_JPEG2} ->
             [mimeType |-> "image/jpeg", extension |-> ".jpg"]
      [] blipType = ESCHER_BLIP_PNG -> [mimeType |-> "image/png", extension |-> ".png"]
      [] blipType = ESCHER_BLIP_DIB -> [mimeType |-> "image/bmp", extension |-> ".bmp"]
      [] blipType = ESCHER_BLIP_TIFF -> [mimeType |-> "image/tiff", extension |-> ".tiff"]
      [] OTHER -> [mimeType |-> "application/octet-stream", extension |-> ".bin"]

\* One element of the list extractBlipsFromDrawingGroup returns; the image
\* bytes are represented by their number.
BlipInfo(index, blipType, dataLen) ==
    [index |-> index,
     mimeType |-> getMimeAndExt(blipType).mimeType,
     extension |-> getMimeAndExt(blipType).extension,
     dataLen |-> dataLen]

\* A workbook stream is [length, recs]: its number of bytes and the records
\* [type, length, data] whose headers a reader meets at the successive
\* offsets, data being the `length` payload bytes the header declares.
\* Mutant of BiffRecordCut: the declared length is not checked.
BiffRecordCutNever(bufLength, offset, length) == FALSE

\* offset + length > buf.length, after offset += 4  (the loop's `break`)
BiffRecordCut(bufLength, offset, length) == offset + length > bufLength

\* The record list after one more record was read.
BiffMerge(records, type, data) ==
    IF type = BIFF_CONTINUE /\ Len(records) > 0
    THEN [records EXCEPT ![Len(records)] =
              [type |-> records[Len(records)].type,
               data |-> records[Len(records)].data \o data]]
    ELSE Append(records, [type |-> type, data |-> data])

\* The loop of readBiffRecords from the k-th record at `offset` on.
RECURSIVE ReadBiffFrom(_, _, _, _)
ReadBiffFrom(buf, k, offset, records) ==
    IF ~(offset + 4 <= buf.length) \/ k > Len(buf.recs) THEN records
    ELSE IF BiffRecordCut(buf.length, offset + 4, buf.recs[k].length) THEN records
    ELSE ReadBiffFrom(buf, k + 1, offset + 4 + buf.recs[k].length,
                      BiffMerge(records, buf.recs[k].type, buf.recs[k].data))

readBiffRecords(buf) == ReadBiffFrom(buf, 1, 0, <<>>)

\* An Escher buffer is [length, recs]: its number of bytes and the record
\* headers a reader meets at the successive offsets.  A record is
\* [version, instance, type, length, recs, cbName, blip]: recs describes its
\* payload read as a buffer, cbName and blip its payload read as a BSE (the
\* byte at offset 33 and the header found at offset 36 + cbName; the field
\* inflated of blip is <<n>> when the image bytes are a zlib stream of n
\* bytes, <<>> when inflateSync throws on them).
\* readEscherRecord(buf, offset) !== null, for a header declaring `length`.
EscherRecordFits(bufLength, offset, length) ==
    /\ ~(offset + 8 > bufLength)
    /\ ~(length < 0 \/ offset + 8 + length > bufLength)

\* Mutant of IterEscherFrom: a record that does not fit is stepped over by
\* its header and the walk goes on.
RECURSIVE IterEscherSkipping(_, _, _, _)
IterEscherSkipping(buf, k, offset, yielded) ==
    IF ~(offset < buf.length) \/ k > Len(buf.recs) THEN yielded
    ELSE IF ~EscherRecordFits(buf.length, offset, buf.recs[k].length)
    THEN IterEscherSkipping(buf, k + 1, offset + 8, yielded)
    ELSE IterEscherSkipping(buf, k + 1, offset + 8 + buf.recs[k].length,
                            Append(yielded, buf.recs[k]))

\* The loop of iterEscherRecords from the k-th header at `offset` on.
RECURSIVE IterEscherFrom(_, _, _, _)
IterEscherFrom(buf, k, offset, yielded) ==
    IF ~(offset < buf.length) \/ k > Len(buf.recs) THEN yielded
    ELSE IF ~EscherRecordFits(buf.length, offset, buf.recs[k].length)
    THEN yielded
    ELSE IterEscherFrom(buf, k + 1, offset + 8 + buf.recs[k].length,
                        Append(yielded, buf.recs[k]))

iterEscherRecords(buf) == IterEscherFrom(buf, 1, 0, <<>>)

isContainer(rec) == rec.version = 15

\* rec.data, as a buffer
DataOf(rec) == [length |-> rec.length, recs |-> rec.recs]

\* The number of header bytes before the image bytes of a BLIP.
ImageDataOffset(blipType, instance) ==
    CASE blipType \in {ESCHER_BLIP_EMF, ESCHER_BLIP_WMF, ESCHER_BLIP_PICT} ->
             16 + (IF instance \in {981, 535, 1347} THEN 16 ELSE 0) + 34
      [] blipType \in {ESCHER_BLIP_JPEG, ESCHER_BLIP_JPEG2} ->
             16 + (IF instance \in {1131, 1763} THEN 16 ELSE 0) + 1
      [] blipType = ESCHER_BLIP_PNG -> 16 + (IF instance = 1761 THEN 16 ELSE 0) + 1
      [] blipType = ESCHER_BLIP_DIB -> 16 + (IF instance = 1961 THEN 16 ELSE 0) + 1
      [] blipType = ESCHER_BLIP_TIFF -> 16 + (IF instance = 1765 THEN 16 ELSE 0) + 1
      [] OTHER -> 17

\* The number of image bytes of a BLIP: blipData.subarray(imageDataOffset),
\* replaced for EMF/WMF/PICT by what inflateSync returns unless it throws.
ImageData(blip) ==
    IF blip.type \in {ESCHER_BLIP_EMF, ESCHER_BLIP_WMF, ESCHER_BLIP_PICT}
       /\ blip.inflated # <<>>
    THEN blip.inflated[1]
    ELSE blip.length - ImageDataOffset(blip.type, blip.instance)

\* The BSE record is skipped (one of the loop's `continue`s).
BseSkipped(bse) ==
    \/ bse.type # ESCHER_BSE
    \/ bse.length < 36
    \/ 36 + bse.cbName >= bse.length
    \/ ~EscherRecordFits(bse.length, 36 + bse.cbName, bse.blip.length)
    \/ ImageDataOffset(bse.blip.type, bse.blip.instance) >= bse.blip.length

\* Mutant of BseIndexAfter: the index runs on over all the stores.
BseIndexRunning(blips, k) == Len(blips) + 1

\* bseIndex after bseIndex++ at the k-th record of a store: the counter
\* starts at 0 for every BStoreContainer.
BseIndexAfter(blips, k) == k

\* The innermost loop: the records of one BStoreContainer from the k-th on.
RECURSIVE StoreBlips(_, _, _)
StoreBlips(records, k, blips) ==
    IF k > Len(records) THEN blips
    ELSE LET bse == records[k]
             bseIndex == BseIndexAfter(blips, k)
         IN  IF BseSkipped(bse) THEN StoreBlips(records, k + 1, blips)
             ELSE StoreBlips(records, k + 1,
                      Append(blips,
                             BlipInfo(bseIndex, bse.blip.type, ImageData(bse.blip))))

\* The middle loop: the children of one DggContainer from the k-th on; a
\* child that is not a BStoreContainer is passed over.
RECURSIVE DggBlips(_, _, _)
DggBlips(records, k, blips) ==
    IF k > Len(records) THEN blips
    ELSE LET child == records[k]
         IN  IF child.type # ESCHER_BSTORE_CONTAINER \/ ~isContainer(child)
             THEN DggBlips(records, k + 1, blips)
             ELSE DggBlips(records, k + 1,
                           StoreBlips(iterEscherRecords(DataOf(child)), 1, blips))

\* The outer loop: the top-level records of the drawing group data from the
\* k-th on; a record that is not a DggContainer is passed over.
RECURSIVE GroupBlips(_, _, _)
GroupBlips(records, k, blips) ==
    IF k > Len(records) THEN blips
    ELSE LET dggContainer == records[k]
         IN  IF dggContainer.type # ESCHER_DGG_CONTAINER \/ ~isContainer(dggContainer)
             THEN GroupBlips(records, k + 1, blips)
             ELSE GroupBlips(records, k + 1,
                             DggBlips(iterEscherRecords(DataOf(dggContainer)), 1, blips))

extractBlipsFromDrawingGroup(data) == GroupBlips(iterEscherRecords(data), 1, <<>>)

\* A drawing record carries two more fields: words, its payload read as
\* 16-bit little-endian words (word j at byte offset 2 * (j - 1)), and
\* props, its payload read as a table of 6-byte [id, value] properties.
\* child.data.readUInt16LE(offset)
ReadUInt16LE(words, offset) == words[offset \div 2 + 1]

\* Mutant of AnchorOf: the four fields are read at consecutive offsets.
AnchorPacked(child) ==
    [fromCol |-> ReadUInt16LE(child.words, 2),
     fromRow |-> ReadUInt16LE(child.words, 4),
     toCol |-> ReadUInt16LE(child.words, 6),
     toRow |-> ReadUInt16LE(child.words, 8)]

\* { fromCol: col1, fromRow: row1, toCol: col2, toRow: row2 }
AnchorOf(child) ==
    [fromCol |-> ReadUInt16LE(child.words, 2),
     fromRow |-> ReadUInt16LE(child.words, 6),
     toCol |-> ReadUInt16LE(child.words, 10),
     toRow |-> ReadUInt16LE(child.words, 14)]

\* The first loop over the children of an SpContainer, from the k-th on:
\* `anchor` is <<>> for null and <<a>> once a ClientAnchor was read.
RECURSIVE SpAnchor(_, _, _)
SpAnchor(spChildren, k, anchor) ==
    IF k > Len(spChildren) THEN anchor
    ELSE LET child == spChildren[k]
         IN  IF child.type = ESCHER_CLIENT_ANCHOR /\ child.length >= 18
             THEN SpAnchor(spChildren, k + 1, <<AnchorOf(child)>>)
             ELSE SpAnchor(spChildren, k + 1, anchor)

\* The loop over the properties of one OPT record, from property i on.
RECURSIVE OptBlipIndex(_, _, _, _)
OptBlipIndex(child, i, propOffset, blipIndex) ==
    IF ~(i < child.instance /\ propOffset + 6 <= child.length) THEN blipIndex
    ELSE LET prop == child.props[i + 1]
         IN  OptBlipIndex(child, i + 1, propOffset + 6,
                          IF prop.id % PROP_ID_MASK = PROP_BLIP_ID
                          THEN prop.value ELSE blipIndex)

\* The second loop over the children of an SpContainer, from the k-th on.
RECURSIVE SpBlipIndex(_, _, _)
SpBlipIndex(spChildren, k, blipIndex) ==
    IF k > Len(spChildren) THEN blipIndex
    ELSE LET child == spChildren[k]
         IN  IF child.type \in {ESCHER_OPT, ESCHER_FOPT} /\ child.length >= 6
             THEN SpBlipIndex(spChildren, k + 1, OptBlipIndex(child, 0, 0, blipIndex))
             ELSE SpBlipIndex(spChildren, k + 1, blipIndex)

\* Mutant of ShapeAnchors: a shape with a ClientAnchor yields an anchor
\* whatever its blip index.
ShapeAnchorsAnyBlip(rec, sheetName) ==
    LET spChildren == iterEscherRecords([length |-> rec.length, recs |-> rec.recs])
        blipIndex == SpBlipIndex(spChildren, 1, 0)
        anchor == SpAnchor(spChildren, 1, <<>>)
    IN  IF anchor # <<>>
        THEN <<[sheetName |-> sheetName, blipIndex |-> blipIndex,
                fromCol |-> anchor[1].fromCol, fromRow |-> anchor[1].fromRow,
                toCol |-> anchor[1].toCol, toRow |-> anchor[1].toRow]>>
        ELSE <<>>

\* What one SpContainer pushes to `anchors`  (blipIndex > 0 && anchor).
ShapeAnchors(rec, sheetName) ==
    LET spChildren == iterEscherRecords([length |-> rec.length, recs |-> rec.recs])
        blipIndex == SpBlipIndex(spChildren, 1, 0)
        anchor == SpAnchor(spChildren, 1, <<>>)
    IN  IF blipIndex > 0 /\ anchor # <<>>
        THEN <<[sheetName |-> sheetName, blipIndex |-> blipIndex,
                fromCol |-> anchor[1].fromCol, fromRow |-> anchor[1].fromRow,
                toCol |-> anchor[1].toCol, toRow |-> anchor[1].toRow]>>
        ELSE <<>>

\* processContainer(buf): the anchors it pushes, in order.  The first loop
\* descends into every container (and every record of type SpContainer);
\* the last loop handles the SpContainers of this level.
RECURSIVE processContainer(_, _)
RECURSIVE DescendFrom(_, _, _)
DescendFrom(records, k, sheetName) ==
    IF k > Len(records) THEN <<>>
    ELSE LET rec == records[k]
         IN  IF isContainer(rec) \/ rec.type = ESCHER_SP_CONTAINER
             THEN processContainer([length |-> rec.length, recs |-> rec.recs],
                                   sheetName)
                    \o DescendFrom(records, k + 1, sheetName)
             ELSE DescendFrom(records, k + 1, sheetName)

RECURSIVE ShapesFrom(_, _, _)
ShapesFrom(records, k, sheetName) ==
    IF k > Len(records) THEN <<>>
    ELSE LET rec == records[k]
         IN  IF rec.type = ESCHER_SP_CONTAINER /\ isContainer(rec)
             THEN ShapeAnchors(rec, sheetName) \o ShapesFrom(records, k + 1, sheetName)
             ELSE ShapesFrom(records, k + 1, sheetName)

processContainer(buf, sheetName) ==
    LET records == iterEscherRecords(buf)
    IN  DescendFrom(records, 1, sheetName) \o ShapesFrom(records, 1, sheetName)

parseSheetDrawings(drawingData, sheetName) == processContainer(drawingData, sheetName)

\* The records readBiffRecords returns are [type, data]; the data of an
\* MsoDrawingGroup or MsoDrawing record is an Escher buffer.
\* Buffer.concat(buffers), for buffers that end with their last record.
RECURSIVE ConcatRecs(_, _)
ConcatRecs(buffers, k) ==
    IF k > Len(buffers) THEN <<>>
    ELSE buffers[k].recs \o ConcatRecs(buffers, k + 1)

ConcatBuffers(buffers) ==
    [length |-> SumSeq([i \in DOMAIN buffers |-> buffers[i].length]),
     recs |-> ConcatRecs(buffers, 1)]

\* sheetDrawings.set(sheetIdx, [...(sheetDrawings.get(sheetIdx) || []), data]);
\* the Map is the list of its entries [sheetIdx, buffers] in insertion order.
PushDrawing(sheetDrawings, sheetIdx, data) ==
    IF \E i \in DOMAIN sheetDrawings : sheetDrawings[i].sheetIdx = sheetIdx
    THEN [i \in DOMAIN sheetDrawings |->
             IF sheetDrawings[i].sheetIdx = sheetIdx
             THEN [sheetIdx |-> sheetIdx,
                   buffers |-> Append(sheetDrawings[i].buffers, data)]
             ELSE sheetDrawings[i]]
    ELSE Append(sheetDrawings, [sheetIdx |-> sheetIdx, buffers |-> <<data>>])

\* Mutant of DrawingCollected: the sub-stream need not be open.
DrawingCollectedClosed(type, inSubstream, substreamIndex) ==
    type = BIFF_MSODRAWING /\ substreamIndex >= 1

\* rec.type === BIFF_MSODRAWING && inSubstream && substreamIndex >= 1
DrawingCollected(type, inSubstream, substreamIndex) ==
    type = BIFF_MSODRAWING /\ inSubstream /\ substreamIndex >= 1

\* rec.type === BIFF_MSODRAWINGGROUP: the sub-stream is not looked at.
GroupCollected(type, inSubstream, substreamIndex) ==
    type = BIFF_MSODRAWINGGROUP

\* The loop over the records of the workbook stream, from the k-th on.
RECURSIVE ScanFrom(_, _, _, _, _, _)
ScanFrom(records, k, substreamIndex, inSubstream, drawingGroupBuffers, sheetDrawings) ==
    IF k > Len(records)
    THEN [drawingGroupBuffers |-> drawingGroupBuffers, sheetDrawings |-> sheetDrawings]
    ELSE LET rec == records[k]
             index == IF rec.type = BIFF_BOF THEN substreamIndex + 1
                      ELSE substreamIndex
             open == IF rec.type = BIFF_EOF THEN FALSE
                     ELSE IF rec.type = BIFF_BOF THEN TRUE ELSE inSubstream
         IN  ScanFrom(records, k + 1, index, open,
                      IF GroupCollected(rec.type, open, index)
                      THEN Append(drawingGroupBuffers, rec.data)
                      ELSE drawingGroupBuffers,
                      IF DrawingCollected(rec.type, open, index)
                      THEN PushDrawing(sheetDrawings, index - 1, rec.data)
                      ELSE sheetDrawings)

\* let substreamIndex = -1; let inSubstream = false; for (const rec of records)
ScanRecords(records) == ScanFrom(records, 1, -1, FALSE, <<>>, <<>>)

\* The anchors parsed from the collected drawings, sheet after sheet in the
\* order of the Map, each tagged with the index of its sheet.
RECURSIVE SheetAnchorsFrom(_, _)
SheetAnchorsFrom(sheetDrawings, k) ==
    IF k > Len(sheetDrawings) THEN <<>>
    ELSE LET anchors == parseSheetDrawings(ConcatBuffers(sheetDrawings[k].buffers),
                                           None)
         IN  [i \in DOMAIN anchors |->
                 [sheetIdx |-> sheetDrawings[k].sheetIdx,
                  blipIndex |-> anchors[i].blipIndex,
                  fromCol |-> anchors[i].fromCol, fromRow |-> anchors[i].fromRow,
                  toCol |-> anchors[i].toCol, toRow |-> anchors[i].toRow]]
               \o SheetAnchorsFrom(sheetDrawings, k + 1)

\* sheetNames[sheetIdx]: undefined beyond the end of the array.
SheetNameAt(sheetNames, sheetIdx) ==
    IF sheetIdx < Len(sheetNames) THEN sheetNames[sheetIdx + 1] ELSE None

\* Mutant of SheetIndexUnknown: a sub-stream without sheet name is kept.
SheetIndexUnknownNever(sheetIdx, sheetNames) == FALSE

\* sheetIdx >= sheetNames.length  (the loop's first `continue`)
SheetIndexUnknown(sheetIdx, sheetNames) == sheetIdx >= Len(sheetNames)

\* The anchors of the sheets that exist and pass the filter, in sub-stream
\* order (sheetDrawings is keyed by sheet index in order of first MsoDrawing).
AllAnchors(drawings, sheetNames, sheetName) ==
    LET kept(d) == /\ ~SheetIndexUnknown(d.sheetIdx, sheetNames)
                   /\ ~SheetSkipped(sheetName, SheetNameAt(sheetNames, d.sheetIdx))
        keptSeq == SelectSeq(drawings, kept)
    IN  [i \in 1..Len(keptSeq) |->
            [sheetName |-> SheetNameAt(sheetNames, keptSeq[i].sheetIdx),
             blipIndex |-> keptSeq[i].blipIndex,
             fromCol |-> keptSeq[i].fromCol, fromRow |-> keptSeq[i].fromRow,
             toCol |-> keptSeq[i].toCol, toRow |-> keptSeq[i].toRow]]

\* blipPositions.get(index) || []
BlipPositions(allAnchors, index) ==
    LET mine(a) == a.blipIndex = index
        own == SelectSeq(allAnchors, mine)
    IN  [i \in 1..Len(own) |-> Position(own[i].sheetName, own[i])]

\* Mutant of XlsUnplacedSkipped: unplaced images are kept under a filter.
XlsUnplacedSkippedNever(sheetName, positions) == FALSE

\* sheetName && positions.length === 0  (the loop's `continue`)
XlsUnplacedSkipped(sheetName, positions) ==
    Truthy(sheetName) /\ positions = <<>>

XlsImage(blip, positions) ==
    [name |-> "image" \o ToString(blip.index) \o blip.extension,
     mimeType |-> blip.mimeType,
     dataLen |-> Base64Length(blip.dataLen),
     positions |-> positions]

\* Mutant of XlsBuild: an image over the budget is skipped (continue) and the
\* loop goes on instead of stopping.
RECURSIVE XlsBuildSkipping(_, _, _, _, _, _, _)
XlsBuildSkipping(blips, i, allAnchors, sheetName, totalSize, images, limit) ==
    IF i > Len(blips) THEN [images |-> images, truncated |-> FALSE]
    ELSE LET blip == blips[i]
             base64 == Base64Length(blip.dataLen)
             positions == BlipPositions(allAnchors, blip.index)
             rest(t, im) ==
                 XlsBuildSkipping(blips, i + 1, allAnchors, sheetName, t, im, limit)
         IN  IF OverBudget(totalSize, base64, limit)
             THEN [images |-> rest(totalSize, images).images, truncated |-> TRUE]
             ELSE IF XlsUnplacedSkipped(sheetName, positions)
                  THEN rest(totalSize + base64, images)
                  ELSE rest(totalSize + base64,
                            Append(images, XlsImage(blip, positions)))

\* The result-building loop over the blips (for ... of blips), from blip i on.
RECURSIVE XlsBuild(_, _, _, _, _, _, _)
XlsBuild(blips, i, allAnchors, sheetName, totalSize, images, limit) ==
    IF i > Len(blips) THEN [images |-> images, truncated |-> FALSE]
    ELSE LET blip == blips[i]
             base64 == Base64Length(blip.dataLen)
             positions == BlipPositions(allAnchors, blip.index)
         IN  IF OverBudget(totalSize, base64, limit)
             THEN [images |-> images, truncated |-> TRUE]
             ELSE IF XlsUnplacedSkipped(sheetName, positions)
                  THEN XlsBuild(blips, i + 1, allAnchors, sheetName,
                                totalSize + base64, images, limit)
                  ELSE XlsBuild(blips, i + 1, allAnchors, sheetName,
                                totalSize + base64,
                                Append(images, XlsImage(blip, positions)), limit)

\* Mutant of WorkbookStreamMissing: the stream check is left out.
WorkbookStreamMissingNever(body) == FALSE

\* !(CFB.find(cfb, '/Workbook') || CFB.find(cfb, '/Book'))
WorkbookStreamMissing(body) == ~body.hasWorkbook

\* extractXlsImages with the size ceiling as a parameter.
XlsExtract(f, sheetName, limit) ==
    IF FileMissing(f)
    THEN McpError("InvalidRequest", "File not found", "legacy")
    ELSE IF ~f.body.parses
    THEN PlainError("XLSX.read failed", "legacy")
    ELSE IF SheetMissing(sheetName, f.body.sheetNames)
    THEN McpError("InvalidRequest", "Sheet not found", "legacy")
    ELSE IF WorkbookStreamMissing(f.body)
    THEN McpError("InvalidRequest", "Cannot find Workbook stream in .xls file", "legacy")
    ELSE IF ~f.body.hasGroup \/ f.body.group.length = 0
    THEN ImagesResult(<<>>, FALSE, "legacy")
    ELSE LET blips == extractBlipsFromDrawingGroup(f.body.group)
             allAnchors == AllAnchors(f.body.drawings, f.body.sheetNames, sheetName)
             built == XlsBuild(blips, 1, allAnchors, sheetName, 0, <<>>, limit)
         IN  IF blips = <<>>
             THEN ImagesResult(<<>>, FALSE, "legacy")
             ELSE ImagesResult(built.images, built.truncated, "legacy")

extractXlsImages(f, sheetName) == XlsExtract(f, sheetName, MAX_IMAGES_SIZE)

\* The body of a compound file given by the records of its workbook stream:
\* hasGroup, group and drawings hold what extractXlsImages collects from the
\* records (drawingGroupBuffers.length > 0, Buffer.concat(drawingGroupBuffers)
\* and the anchors of the sheetDrawings).
XlsStreamBody(sheetNames, stream) ==
    LET scan == ScanRecords(stream)
    IN  [kind |-> "xls", parses |-> TRUE, sheetNames |-> sheetNames,
         hasWorkbook |-> TRUE,
         hasGroup |-> scan.drawingGroupBuffers # <<>>,
         group |-> ConcatBuffers(scan.drawingGroupBuffers),
         drawings |-> SheetAnchorsFrom(scan.sheetDrawings, 1),
         rows |-> [i \in DOMAIN sheetNames |-> 0], rowJsonLen |-> 10,
         columns |-> <<"A">>, stream |-> stream]

\* --- resolveRelativePath ---
\* str.split(separator), from character k on: `current` is the part being
\* read.
RECURSIVE SplitFrom(_, _, _, _, _)
SplitFrom(str, separator, k, current, parts) ==
    IF k > Len(str) THEN Append(parts, current)
    ELSE IF CharAt(str, k) = separator
    THEN SplitFrom(str, separator, k + 1, "", Append(parts, current))
    ELSE SplitFrom(str, separator, k + 1, current \o CharAt(str, k), parts)

\* str.split(separator), for a separator of one character
Split(str, separator) == SplitFrom(str, separator, 1, "", <<>>)

\* parts.join("/")
RECURSIVE Join(_)
Join(parts) ==
    IF parts = <<>> THEN ""
    ELSE IF Len(parts) = 1 THEN parts[1]
    ELSE parts[1] \o "/" \o Join(Tail(parts))

\* parts.pop(): nothing happens to an empty array
Pop(parts) == IF parts = <<>> THEN parts ELSE SubSeq(parts, 1, Len(parts) - 1)

\* Mutant of PartIgnored: "." is pushed like a name.
PartIgnoredNever(part) == FALSE

\* part === "."  (the part is neither popped for nor pushed)
PartIgnored(part) == part = "."

\* The loop over targetParts, from the k-th part on.
RECURSIVE ApplyParts(_, _, _)
ApplyParts(parts, targetParts, k) ==
    IF k > Len(targetParts) THEN parts
    ELSE LET part == targetParts[k]
         IN  IF part = ".." THEN ApplyParts(Pop(parts), targetParts, k + 1)
             ELSE IF ~PartIgnored(part)
                  THEN ApplyParts(Append(parts, part), targetParts, k + 1)
                  ELSE ApplyParts(parts, targetParts, k + 1)

resolveRelativePath(baseDir, target) ==
    IF StartsWith(target, "/") THEN Slice(target, 1)
    ELSE Join(ApplyParts(Split(baseDir, "/"), Split(target, "/"), 1))

(***************************************************************************)
(* OOXML (.xlsx) pipeline and the dispatcher: extractImages.               *)
(* Archive paths are strings.                                              *)
(***************************************************************************)
\* array[array.length - 1], what pop() returns
Last(parts) == parts[Len(parts)]

\* path.split("/").pop()
FileNameOf(path) == Last(Split(path, "/"))

\* `.${path.split(".").pop()?.toLowerCase()}`
ExtensionOf(path) == "." \o ToLowerCase(Last(Split(path, ".")))

\* path.startsWith("xl/media/")
InXlMedia(path) == StartsWith(path, "xl/media/")

\* `media/${fileName}`
RelsKeyOf(path) == "media/" \o FileNameOf(path)

\* MIME_TYPES[ext] || "application/octet-stream"
MIME_TYPES(ext) ==
    CASE ext = ".png" -> "image/png"
      [] ext \in {".jpg", ".jpeg"} -> "image/jpeg"
      [] ext = ".gif" -> "image/gif"
      [] ext = ".bmp" -> "image/bmp"
      [] ext \in {".tiff", ".tif"} -> "image/tiff"
      [] ext = ".emf" -> "image/x-emf"
      [] ext = ".wmf" -> "image/x-wmf"
      [] ext = ".svg" -> "image/svg+xml"
      [] OTHER -> "application/octet-stream"

\* Map.prototype.set on an insertion-ordered list of [key, value] entries.
MapSet(m, key, value) ==
    IF \E i \in DOMAIN m : m[i].key = key
    THEN [i \in DOMAIN m |-> IF m[i].key = key THEN [key |-> key, value |-> value]
                                               ELSE m[i]]
    ELSE Append(m, [key |-> key, value |-> value])

MapHas(m, key) == \E i \in DOMAIN m : m[i].key = key

\* Map.prototype.get; None stands for undefined.
MapGet(m, key) ==
    IF MapHas(m, key)
    THEN (CHOOSE e \in Range(m) : e.key = key).value
    ELSE None

\* Step 1: the media map over the entries [path, dir, dataLen] of the
\* archive, every file under xl/media/ stored under its archive path and
\* under media/<fileName>.
RECURSIVE MediaFiles(_, _, _)
MediaFiles(media, i, acc) ==
    IF i > Len(media) THEN acc
    ELSE IF ~(InXlMedia(media[i].path) /\ ~media[i].dir)
    THEN MediaFiles(media, i + 1, acc)
    ELSE LET e == media[i]
             v == [dataLen |-> Base64Length(e.dataLen),
                   mimeType |-> MIME_TYPES(ExtensionOf(e.path))]
         IN  MediaFiles(media, i + 1,
                        MapSet(MapSet(acc, e.path, v), RelsKeyOf(e.path), v))

\* Array.prototype.indexOf: the zero-based index of the first element equal
\* to x, -1 when there is none.
IndexOf(arr, x) ==
    IF \E i \in DOMAIN arr : arr[i] = x
    THEN (CHOOSE i \in DOMAIN arr :
              arr[i] = x /\ \A j \in 1..(i - 1) : arr[j] # x) - 1
    ELSE -1

\* arr[i] for a zero-based index; None stands for undefined.
ArrayAt(arr, i) == IF i >= 0 /\ i < Len(arr) THEN arr[i + 1] ELSE None

\* Mutant of SheetNotInWorkbook: every sheet entry is entered in sheetFileMap.
SheetNotInWorkbookNever(sheetIdx) == FALSE

\* The negation of the guard `sheetIdx !== -1` before sheetFileMap.set.
SheetNotInWorkbook(sheetIdx) == sheetIdx = -1

\* rel[2].startsWith("/") ? rel[2].slice(1) : `xl/${rel[2]}`
SheetTarget(target) ==
    IF StartsWith(target, "/") THEN Slice(target, 1) ELSE "xl/" \o target

\* The path of the k-th worksheet part of a package, k counted from 0.
SheetPath(part) == "xl/worksheets/sheet" \o ToString(part + 1) \o ".xml"

\* Step 2: sheetFileMap, sheet part -> index in sheetNames.  The body holds
\* the matches of the two patterns: sheetRels the [id, target] pairs of
\* xl/_rels/workbook.xml.rels, sheetEntries the [name, rId] pairs of the
\* <sheet> elements of xl/workbook.xml, the name as the attribute is written
\* in the file.  for (const sheetEntry of sheetEntries), from the k-th on.
RECURSIVE SheetFileMap(_, _, _)
SheetFileMap(body, k, acc) ==
    IF k > Len(body.sheetEntries) THEN acc
    ELSE LET name == body.sheetEntries[k].name
             rId == body.sheetEntries[k].rId
             found(r) == r.id = rId
             rels == SelectSeq(body.sheetRels, found)
         IN  IF rels = <<>> THEN SheetFileMap(body, k + 1, acc)
             ELSE LET target == SheetTarget(rels[1].target)
                      sheetIdx == IndexOf(body.sheetNames, name)
                  IN  IF SheetNotInWorkbook(sheetIdx)
                      THEN SheetFileMap(body, k + 1, acc)
                      ELSE SheetFileMap(body, k + 1,
                                        MapSet(acc, target, sheetIdx))

\* Step 3: for (const [sheetPath, sheetIdx] of sheetFileMap.entries()), from
\* the k-th entry on: the image mappings of the sheets that pass the filter.
\* The mappings of the body are what the rels/drawing traversal finds, each
\* with the number of the sheet part whose drawing holds the anchor.
RECURSIVE SheetLoop(_, _, _, _)
SheetLoop(body, sheetName, sheetFileMap, k) ==
    IF k > Len(sheetFileMap) THEN <<>>
    ELSE LET sheetPath == sheetFileMap[k].key
             sheetIdx == sheetFileMap[k].value
             currentSheetName == ArrayAt(body.sheetNames, sheetIdx)
             drawn(m) == SheetPath(m.part) = sheetPath
             found == SelectSeq(body.mappings, drawn)
         IN  (IF SheetSkipped(sheetName, currentSheetName) THEN <<>>
              ELSE [i \in DOMAIN found |->
                       [imagePath |-> found[i].imagePath,
                        position |-> Position(currentSheetName, found[i])]])
             \o SheetLoop(body, sheetName, sheetFileMap, k + 1)

\* Steps 2-3: the image mappings of a call.
ImageMappings(body, sheetName) ==
    SheetLoop(body, sheetName, SheetFileMap(body, 1, <<>>), 1)

\* --- the drawing part of a sheet ---
\* A drawing part is [anchors, rels].  anchors lists its twoCellAnchor and
\* oneCellAnchor elements in document order, each [twoCell, embeds, from, to]:
\* embeds the ids of its r:embed attributes in order, from and to the
\* [col, row] its <xdr:from> / <xdr:to> match yields (<<>> when there is no
\* match, <<c>> otherwise).  rels is [present, entries]: whether the rels
\* file of the drawing exists and the [id, target] pairs found in it.
\* normalizedDrawingPath.substring(0, lastIndexOf("/")) of xl/drawings/drawing1.xml
DrawingDir == "xl/drawings"

\* imageRIdMap: rId -> full image path, from the rels of the drawing.
RECURSIVE ImageRIdMap(_, _, _)
ImageRIdMap(entries, k, acc) ==
    IF k > Len(entries) THEN acc
    ELSE ImageRIdMap(entries, k + 1,
             MapSet(acc, entries[k].id,
                    resolveRelativePath(DrawingDir, entries[k].target)))

\* Mutant of AnchorRect: the to-corner is never read.
AnchorRectFromOnly(el) ==
    LET fromRow == IF el.from # <<>> THEN el.from[1].row ELSE 0
        fromCol == IF el.from # <<>> THEN el.from[1].col ELSE 0
    IN  [fromRow |-> fromRow, fromCol |-> fromCol,
         toRow |-> fromRow, toCol |-> fromCol]

\* fromRow, fromCol, toRow, toCol of one anchor element.
AnchorRect(el) ==
    LET fromRow == IF el.from # <<>> THEN el.from[1].row ELSE 0
        fromCol == IF el.from # <<>> THEN el.from[1].col ELSE 0
    IN  [fromRow |-> fromRow, fromCol |-> fromCol,
         toRow |-> IF el.twoCell /\ el.to # <<>> THEN el.to[1].row ELSE fromRow,
         toCol |-> IF el.twoCell /\ el.to # <<>> THEN el.to[1].col ELSE fromCol]

\* for (const blipMatch of allBlipMatches), from the k-th match on.
RECURSIVE EmbedMappings(_, _, _, _)
EmbedMappings(el, k, imageRIdMap, part) ==
    IF k > Len(el.embeds) THEN <<>>
    ELSE LET imageFullPath == MapGet(imageRIdMap, el.embeds[k])
             rect == AnchorRect(el)
         IN  IF ~Truthy(imageFullPath)
             THEN EmbedMappings(el, k + 1, imageRIdMap, part)
             ELSE <<[part |-> part, imagePath |-> imageFullPath,
                     fromCol |-> rect.fromCol, fromRow |-> rect.fromRow,
                     toCol |-> rect.toCol, toRow |-> rect.toRow]>>
                    \o EmbedMappings(el, k + 1, imageRIdMap, part)

\* while ((match = pattern.exec(drawingXml)) !== null), for one of the two
\* patterns, from the k-th anchor element on.
RECURSIVE PatternMappings(_, _, _, _, _)
PatternMappings(anchors, k, isTwoCell, imageRIdMap, part) ==
    IF k > Len(anchors) THEN <<>>
    ELSE IF anchors[k].twoCell # isTwoCell
    THEN PatternMappings(anchors, k + 1, isTwoCell, imageRIdMap, part)
    ELSE EmbedMappings(anchors[k], 1, imageRIdMap, part)
           \o PatternMappings(anchors, k + 1, isTwoCell, imageRIdMap, part)

\* The image mappings one drawing part adds: the twoCellAnchor pattern is
\* run over the whole part first, the oneCellAnchor pattern after it.
DrawingMappings(drawing, part) ==
    LET imageRIdMap == IF drawing.rels.present
                       THEN ImageRIdMap(drawing.rels.entries, 1, <<>>)
                       ELSE <<>>
    IN  PatternMappings(drawing.anchors, 1, TRUE, imageRIdMap, part)
          \o PatternMappings(drawing.anchors, 1, FALSE, imageRIdMap, part)

\* The <sheet> elements of a workbook.xml that writes every name as the
\* workbook holds it, and the relationships of its sheets.
SheetEntriesOf(sheetNames) ==
    [i \in DOMAIN sheetNames |-> [name |-> sheetNames[i], rId |-> "rId" \o ToString(i)]]

SheetRelsOf(sheetNames) ==
    [i \in DOMAIN sheetNames |->
        [id |-> "rId" \o ToString(i),
         target |-> "worksheets/sheet" \o ToString(i) \o ".xml"]]

\* The body of a package whose first sheet has the given drawing part:
\* mappings holds what the traversal of that part finds.
XlsxDrawingBody(sheetNames, media, drawing) ==
    [kind |-> "xlsx", parses |-> TRUE, sheetNames |-> sheetNames,
     sheetEntries |-> SheetEntriesOf(sheetNames),
     sheetRels |-> SheetRelsOf(sheetNames),
     media |-> media, mappings |-> DrawingMappings(drawing, 0),
     rows |-> [i \in DOMAIN sheetNames |-> 0], rowJsonLen |-> 10,
     columns |-> <<"A">>, drawing |-> drawing]

\* Step 4: positions grouped by image path, in order of first appearance.
RECURSIVE ImageMap(_, _, _)
ImageMap(imageMappings, i, acc) ==
    IF i > Len(imageMappings) THEN acc
    ELSE LET mp == imageMappings[i]
             existing == MapGet(acc, mp.imagePath)
         IN  ImageMap(imageMappings, i + 1,
                      IF MapHas(acc, mp.imagePath)
                      THEN MapSet(acc, mp.imagePath, Append(existing, mp.position))
                      ELSE MapSet(acc, mp.imagePath, <<mp.position>>))

XlsxImage(path, mediaEntry, positions) ==
    [name |-> FileNameOf(path),
     mimeType |-> mediaEntry.mimeType,
     dataLen |-> mediaEntry.dataLen,
     positions |-> positions]

\* Mutant of PlacedImages: an image over the budget is skipped (continue)
\* and the loop goes on instead of stopping.
RECURSIVE PlacedImagesSkipping(_, _, _, _, _, _)
PlacedImagesSkipping(imageMap, i, mediaFiles, totalSize, images, limit) ==
    IF i > Len(imageMap)
    THEN [images |-> images, truncated |-> FALSE, totalSize |-> totalSize]
    ELSE LET imagePath == imageMap[i].key
             media == MapGet(mediaFiles, imagePath)
             rest(t, im) ==
                 PlacedImagesSkipping(imageMap, i + 1, mediaFiles, t, im, limit)
         IN  IF ~MapHas(mediaFiles, imagePath) THEN rest(totalSize, images)
             ELSE IF OverBudget(totalSize, media.dataLen, limit)
             THEN [images |-> rest(totalSize, images).images, truncated |-> TRUE,
                   totalSize |-> totalSize]
             ELSE rest(totalSize + media.dataLen,
                       Append(images, XlsxImage(imagePath, media, imageMap[i].value)))

\* First loop: the images with position info, from entry i of imageMap on.
RECURSIVE PlacedImages(_, _, _, _, _, _)
PlacedImages(imageMap, i, mediaFiles, totalSize, images, limit) ==
    IF i > Len(imageMap)
    THEN [images |-> images, truncated |-> FALSE, totalSize |-> totalSize]
    ELSE LET imagePath == imageMap[i].key
             media == MapGet(mediaFiles, imagePath)
         IN  IF ~MapHas(mediaFiles, imagePath)
             THEN PlacedImages(imageMap, i + 1, mediaFiles, totalSize, images, limit)
             ELSE IF OverBudget(totalSize, media.dataLen, limit)
             THEN [images |-> images, truncated |-> TRUE, totalSize |-> totalSize]
             ELSE PlacedImages(imageMap, i + 1, mediaFiles,
                               totalSize + media.dataLen,
                               Append(images,
                                      XlsxImage(imagePath, media, imageMap[i].value)),
                               limit)

\* Second loop: the media entries no mapping names, from entry i on.
RECURSIVE UnplacedImages(_, _, _, _, _, _)
UnplacedImages(mediaFiles, i, imageMap, totalSize, images, limit) ==
    IF i > Len(mediaFiles) THEN [images |-> images, truncated |-> FALSE]
    ELSE LET path == mediaFiles[i].key
             media == mediaFiles[i].value
         IN  IF ~InXlMedia(path) \/ MapHas(imageMap, path)
             THEN UnplacedImages(mediaFiles, i + 1, imageMap, totalSize, images, limit)
             ELSE IF OverBudget(totalSize, media.dataLen, limit)
             THEN [images |-> images, truncated |-> TRUE]
             ELSE UnplacedImages(mediaFiles, i + 1, imageMap,
                                 totalSize + media.dataLen,
                                 Append(images, XlsxImage(path, media, <<>>)), limit)

\* Mutant of UnplacedWanted: the unreferenced media are added under a filter too.
UnplacedWantedAlways(truncated, sheetName) == ~truncated

\* !truncated && !sheetName
UnplacedWanted(truncated, sheetName) == ~truncated /\ ~Truthy(sheetName)

\* Mutant of IsZip: the whole local-file-header signature is demanded.
IsZipStrict(bytes) == bytes = ZipMagic

\* buffer[0] === 0x50 && buffer[1] === 0x4b
IsZip(bytes) == bytes[1] = 80 /\ bytes[2] = 75

\* Mutant of IsOle2: only the first two bytes are compared.
IsOle2Loose(bytes) == bytes[1] = 208 /\ bytes[2] = 207

\* buffer[0] === 0xd0 && buffer[1] === 0xcf && buffer[2] === 0x11 && buffer[3] === 0xe0
IsOle2(bytes) ==
    bytes[1] = 208 /\ bytes[2] = 207 /\ bytes[3] = 17 /\ bytes[4] = 224

\* The OOXML part of extractImages (from JSZip.loadAsync on).
XlsxExtract(f, sheetName, limit) ==
    IF ~f.body.parses
    THEN PlainError("JSZip/XLSX read failed", "ooxml")
    ELSE IF SheetMissing(sheetName, f.body.sheetNames)
    THEN McpError("InvalidRequest", "Sheet not found", "ooxml")
    ELSE LET mediaFiles == MediaFiles(f.body.media, 1, <<>>)
         IN  IF Len(mediaFiles) = 0
             THEN ImagesResult(<<>>, FALSE, "ooxml")
             ELSE LET imageMap == ImageMap(ImageMappings(f.body, sheetName), 1, <<>>)
                      placed == PlacedImages(imageMap, 1, mediaFiles, 0, <<>>, limit)
                      unplaced == UnplacedImages(mediaFiles, 1, imageMap,
                                                 placed.totalSize, placed.images, limit)
                  IN  IF UnplacedWanted(placed.truncated, sheetName)
                      THEN ImagesResult(unplaced.images, unplaced.truncated, "ooxml")
                      ELSE ImagesResult(placed.images, placed.truncated, "ooxml")

\* extractImages with the size ceiling as a parameter.
Extract(f, sheetName, limit) ==
    IF FileMissing(f)
    THEN McpError("InvalidRequest", "File not found", "none")
    ELSE IF Len(f.bytes) < MagicLen
    THEN McpError("InvalidRequest", "File is too small to be a valid Excel file.", "none")
    ELSE IF ~IsZip(f.bytes) /\ ~IsOle2(f.bytes)
    THEN McpError("InvalidRequest", "File is not a valid Excel file.", "none")
    ELSE IF IsOle2(f.bytes)
    THEN XlsExtract(f, sheetName, limit)
    ELSE XlsxExtract(f, sheetName, limit)

extractImages(f, sheetName) == Extract(f, sheetName, MAX_IMAGES_SIZE)

(***************************************************************************)
(* Tabular reader and sheet lister (excel-reader): readExcelFile,          *)
(* listSheets.  A worksheet's rows are represented by their indices        *)
(* 0..totalRows-1; an optional number is <<>> (undefined) or <<n>>.        *)
(***************************************************************************)
Undefined == <<>>

\* estimateJsonSize of a row whose JSON text has the given length
estimateJsonSize(jsonLen) == jsonLen * 2

\* Math.max(1, Math.floor(maxSize / singleRowSize))
calculateChunkSize(rowJsonLen, maxSize) ==
    Max(1, maxSize \div estimateJsonSize(rowJsonLen))

\* Array.prototype.slice(start, end) on the array <<0, ..., n-1>>
JsSlice(n, start, end) ==
    LET from == IF start < 0 THEN Max(n + start, 0) ELSE Min(start, n)
        to == IF end < 0 THEN Max(n + end, 0) ELSE Min(end, n)
    IN  [i \in 1..Max(to - from, 0) |-> from + i - 1]

\* XLSX.utils.sheet_to_json(workbook.Sheets[name]).length; a name that is
\* no sheet gives an undefined worksheet, hence no rows.
SheetRows(body, name) ==
    IF \E i \in DOMAIN body.sheetNames : body.sheetNames[i] = name
    THEN body.rows[CHOOSE i \in DOMAIN body.sheetNames : body.sheetNames[i] = name]
    ELSE 0

readExcelFile(f, a) ==
    IF FileMissing(f) THEN PlainError("File not found", "reader")
    ELSE IF ~f.body.parses THEN PlainError("XLSX.read failed", "reader")
    ELSE
    LET startRow == IF a.startRow = Undefined THEN 0 ELSE a.startRow[1]
        selectedSheetName ==
            IF Truthy(a.sheetName) THEN a.sheetName ELSE f.body.sheetNames[1]
        totalRows == SheetRows(f.body, selectedSheetName)
        columns == IF totalRows > 0 THEN f.body.columns ELSE <<>>
        effectiveMaxRows ==
            IF a.maxRows # Undefined /\ a.maxRows[1] # 0 THEN a.maxRows[1]
            ELSE IF Min(totalRows, 100) > 0
                 THEN calculateChunkSize(f.body.rowJsonLen, MAX_RESPONSE_SIZE)
                 ELSE 100
        endRow == Min(startRow + effectiveMaxRows, totalRows)
        hasMore == endRow < totalRows
    IN  [kind |-> "ok", via |-> "reader",
         totalSheets |-> Len(f.body.sheetNames),
         currentSheet |->
             [name |-> selectedSheetName,
              totalRows |-> totalRows,
              totalColumns |-> Len(columns),
              chunk |-> [rowStart |-> startRow, rowEnd |-> endRow,
                         columns |-> columns,
                         data |-> JsSlice(totalRows, startRow, endRow)],
              hasMore |-> hasMore,
              nextChunk |-> IF hasMore
                            THEN <<[rowStart |-> endRow, columns |-> columns]>>
                            ELSE Undefined]]

listSheets(f) ==
    IF FileMissing(f) THEN PlainError("File not found", "lister")
    ELSE IF ~f.body.parses THEN PlainError("XLSX.read failed", "lister")
    ELSE [kind |-> "ok", via |-> "lister", sheets |-> f.body.sheetNames]

(***************************************************************************)
(* Transport: the get_excel_images tool of the server.                     *)
(***************************************************************************)
\* The file path of the request, as its segments between separators.
FilePath == <<"tmp", "book">>

\* filePath.split(/[\\/]/).pop() || ''
BaseName(path) == IF path = <<>> THEN "" ELSE path[Len(path)]

\* Mutant of Undisplayable: metafiles are treated like any other image.
UndisplayableNever(img) == FALSE

\* img.mimeType === 'image/x-emf' || img.mimeType === 'image/x-wmf'
Undisplayable(img) == img.mimeType \in {"image/x-emf", "image/x-wmf"}

\* The warnings array of the handler.
Warnings(images, truncated) ==
    LET unsupportedFormats == SelectSeq(images, Undisplayable)
    IN  (IF truncated THEN <<[about |-> "truncated"]>> ELSE <<>>)
        \o (IF Len(unsupportedFormats) > 0
            THEN <<[about |-> "unsupported", count |-> Len(unsupportedFormats),
                    names |-> [i \in DOMAIN unsupportedFormats |->
                                  unsupportedFormats[i].name]]>>
            ELSE <<>>)

\* The metadata object; it has a warnings key only if there are warnings.
Metadata(images, truncated) ==
    LET listed == [i \in DOMAIN images |->
                      [name |-> images[i].name, mimeType |-> images[i].mimeType,
                       positions |-> images[i].positions]]
        warnings == Warnings(images, truncated)
    IN  IF Len(warnings) > 0
        THEN [fileName |-> BaseName(FilePath), imageCount |-> Len(images),
              images |-> listed, warnings |-> warnings]
        ELSE [fileName |-> BaseName(FilePath), imageCount |-> Len(images),
              images |-> listed]

\* The image content blocks, one per displayable image.
ImageBlocks(images) ==
    LET displayable(img) == ~Undisplayable(img)
        shown == SelectSeq(images, displayable)
    IN  [i \in DOMAIN shown |->
            [type |-> "image", dataLen |-> shown[i].dataLen,
             mimeType |-> shown[i].mimeType]]

\* The handler of get_excel_images for valid arguments: the content of the
\* reply, the McpError of the engine, or InternalError for any other error.
getExcelImages(f, a) ==
    LET extracted == extractImages(f, a.sheetName)
    IN  IF extracted.kind = "ok"
        THEN [kind |-> "content",
              text |-> [type |-> "text",
                        json |-> Metadata(extracted.images, extracted.truncated)],
              blocks |-> ImageBlocks(extracted.images)]
        ELSE IF extracted.code = "Error"
        THEN McpError("InternalError", "Error extracting images: " \o extracted.message,
                      "transport")
        ELSE extracted

\* A JavaScript value of a request argument, by its typeof.
JsUndefined == [type |-> "undefined"]

JsString(s) == [type |-> "string", value |-> s]

JsNumber(n) == [type |-> "number", value |-> n]

\* request.params.arguments when it is an object with its four keys.
ObjectArguments(filePath, sheetName, startRow, maxRows) ==
    [type |-> "object", null |-> FALSE, filePath |-> filePath,
     sheetName |-> sheetName, startRow |-> startRow, maxRows |-> maxRows]

isValidReadExcelArgs(arguments) ==
    /\ arguments.type = "object"
    /\ ~arguments.null
    /\ arguments.filePath.type = "string"
    /\ (arguments.sheetName.type = "undefined" \/ arguments.sheetName.type = "string")
    /\ (arguments.startRow.type = "undefined" \/ arguments.startRow.type = "number")
    /\ (arguments.maxRows.type = "undefined" \/ arguments.maxRows.type = "number")

isValidListSheetsArgs(arguments) ==
    /\ arguments.type = "object"
    /\ ~arguments.null
    /\ arguments.filePath.type = "string"

isValidGetExcelImagesArgs(arguments) ==
    /\ arguments.type = "object"
    /\ ~arguments.null
    /\ arguments.filePath.type = "string"
    /\ (arguments.sheetName.type = "undefined" \/ arguments.sheetName.type = "string")

\* The destructured arguments of a checked request, as the engine takes them.
DestructuredArgs(arguments) ==
    [sheetName |-> IF arguments.sheetName.type = "undefined" THEN None
                   ELSE arguments.sheetName.value,
     startRow |-> IF arguments.startRow.type = "undefined" THEN Undefined
                  ELSE <<arguments.startRow.value>>,
     maxRows |-> IF arguments.maxRows.type = "undefined" THEN Undefined
                 ELSE <<arguments.maxRows.value>>]

\* The readExcelFile method of the server: the reader's computation, with
\* McpError InvalidRequest for a missing file and any other error wrapped.
serverReadExcelFile(f, a) ==
    IF FileMissing(f) THEN McpError("InvalidRequest", "File not found", "server")
    ELSE LET data == readExcelFile(f, a)
         IN  IF data.kind = "error"
             THEN McpError("InternalError",
                           "Error reading Excel file: " \o data.message, "server")
             ELSE data

\* The sheet list of the list_sheets tool for an existing file.
serverListSheets(f) ==
    IF ~f.body.parses THEN PlainError("XLSX.read failed", "server")
    ELSE [kind |-> "ok", via |-> "server", fileName |-> BaseName(FilePath),
          sheets |-> f.body.sheetNames]

\* The reply with one text block holding JSON.stringify(data).
TextContent(data) ==
    [kind |-> "content", text |-> [type |-> "text", json |-> data], blocks |-> <<>>]

\* Mutant of Caught: an McpError is wrapped like any other error.
CaughtWrapsAll(error, prefix) ==
    McpError("InternalError", prefix \o error.message, "transport")

\* The catch block of a tool: an McpError is thrown again as it is, anything
\* else becomes McpError InternalError with the prefix before its message.
Caught(error, prefix) ==
    IF error.code # "Error" THEN error
    ELSE McpError("InternalError", prefix \o error.message, "transport")

\* The CallTool request handler.
callTool(name, arguments, f) ==
    IF name = "read_excel"
    THEN IF ~isValidReadExcelArgs(arguments)
         THEN McpError("InvalidParams", "Invalid read_excel arguments", "transport")
         ELSE LET data == serverReadExcelFile(f, DestructuredArgs(arguments))
              IN  IF data.kind = "error" THEN Caught(data, "Unexpected error: ")
                  ELSE TextContent(data)
    ELSE IF name = "list_sheets"
    THEN IF ~isValidListSheetsArgs(arguments)
         THEN McpError("InvalidParams", "Invalid list_sheets arguments", "transport")
         ELSE IF FileMissing(f)
         THEN McpError("InvalidRequest", "File not found", "transport")
         ELSE LET data == serverListSheets(f)
              IN  IF data.kind = "error" THEN Caught(data, "Error reading Excel file: ")
                  ELSE TextContent(data)
    ELSE IF name = "get_excel_images"
    THEN IF ~isValidGetExcelImagesArgs(arguments)
         THEN McpError("InvalidParams", "Invalid get_excel_images arguments",
                       "transport")
         ELSE getExcelImages(f, DestructuredArgs(arguments))
    ELSE McpError("MethodNotFound", "Unknown tool: " \o name, "transport")

(***************************************************************************)
(* Suspension points.  extractImages and the CallTool handler are async    *)
(* functions: a call runs to its first await, hands a pending promise to   *)
(* its caller, and is resumed by the event loop once per await until it    *)
(* returns or throws.  An await is [call, of]: the promise awaited and     *)
(* what it reads.                                                          *)
(***************************************************************************)
Await(call, of) == [call |-> call, of |-> of]

\* The package holds the rels part and the drawing part of a sheet where the
\* body records a drawing: for the first sheet part of a body with a drawing
\* part and for every sheet part an image mapping names.
HasDrawing(body, sheetPath) ==
    IF "drawing" \in DOMAIN body THEN sheetPath = SheetPath(0)
    ELSE \E i \in DOMAIN body.mappings : SheetPath(body.mappings[i].part) = sheetPath

\* The rels file of the drawing exists (a mapping comes from a rels entry).
HasDrawingRels(body) ==
    IF "drawing" \in DOMAIN body THEN body.drawing.rels.present ELSE TRUE

\* await file.async("base64"), once for each file under xl/media/.
MediaAwaits(media) ==
    LET read(e) == InXlMedia(e.path) /\ ~e.dir
        files == SelectSeq(media, read)
    IN  [i \in DOMAIN files |-> Await("file.async", files[i].path)]

\* The awaits of the loop over sheetFileMap, from its k-th entry on: the
\* rels of each sheet that passes the filter, its drawing and the rels of
\* the drawing.
RECURSIVE SheetAwaits(_, _, _, _)
SheetAwaits(body, sheetName, sheetFileMap, k) ==
    IF k > Len(sheetFileMap) THEN <<>>
    ELSE LET sheetPath == sheetFileMap[k].key
             currentSheetName == ArrayAt(body.sheetNames, sheetFileMap[k].value)
         IN  (IF SheetSkipped(sheetName, currentSheetName)
                 \/ ~HasDrawing(body, sheetPath)
              THEN <<>>
              ELSE <<Await("sheetRelsFile.async", sheetPath),
                     Await("drawingFile.async", sheetPath)>>
                   \o (IF HasDrawingRels(body)
                       THEN <<Await("drawingRelsFile.async", sheetPath)>>
                       ELSE <<>>))
             \o SheetAwaits(body, sheetName, sheetFileMap, k + 1)

\* The awaits a call of extractImages passes, in order: none before the
\* format is known and none on the legacy path; on a ZIP package
\* JSZip.loadAsync, then (the package read and the sheet found) the media
\* entries, then (some media found) the workbook rels, the workbook and
\* the parts of the sheets.
ExtractImagesAwaits(f, sheetName) ==
    IF FileMissing(f) \/ Len(f.bytes) < MagicLen \/ ~IsZip(f.bytes) THEN <<>>
    ELSE <<Await("JSZip.loadAsync", "buffer")>>
         \o (IF ~f.body.parses \/ SheetMissing(sheetName, f.body.sheetNames)
             THEN <<>>
             ELSE MediaAwaits(f.body.media)
                  \o (IF Len(MediaFiles(f.body.media, 1, <<>>)) = 0 THEN <<>>
                      ELSE <<Await("workbookRelsFile.async",
                                   "xl/_rels/workbook.xml.rels"),
                             Await("workbookFile.async", "xl/workbook.xml")>>
                           \o SheetAwaits(f.body, sheetName,
                                          SheetFileMap(f.body, 1, <<>>), 1)))

\* The get_excel_images branch of the handler awaits extractImages.
GetExcelImagesAwaits(f, a) ==
    ExtractImagesAwaits(f, a.sheetName)
        \o <<Await("extractImages", "request.params.arguments")>>

\* The awaits of the CallTool handler: the other branches have none.
CallToolAwaits(name, arguments, f) ==
    IF name = "get_excel_images" /\ isValidGetExcelImagesArgs(arguments)
    THEN GetExcelImagesAwaits(f, DestructuredArgs(arguments))
    ELSE <<>>

\* A call suspended at the first of its remaining awaits.
Pending(name, f, a, waits) ==
    [name |-> name, file |-> f, args |-> a, waits |-> waits]


(***************************************************************************)
(* The files and arguments of the model.                                   *)
(***************************************************************************)
SheetNameLists == {<<"S1">>, <<"S1", "S2">>}

\* undefined, the empty string, two names a workbook may hold, one it never holds
SheetArgs == {None, "", "S1", "S2", "S9"}

\* Raw byte counts: base64 lengths 4, 6291456 and 10485764 (over the ceiling).
RawLens == {3, 4718592, 7864321}

RectA == [fromCol |-> 0, fromRow |-> 0, toCol |-> 2, toRow |-> 3]

RectB == [fromCol |-> 3, fromRow |-> 5, toCol |-> 1, toRow |-> 2]

HeadBytes == {80, 75, 208, 207, 17, 224, 0}

MissingFile ==
    [exists |-> FALSE, bytes |-> <<>>, body |-> [kind |-> "none", parses |-> FALSE]]

\* Existing files that are no workbook: every content of up to MagicLen
\* leading bytes (a file of at least MagicLen bytes is given by its first
\* MagicLen bytes).  No library can read them.
JunkFiles ==
    {[exists |-> TRUE, bytes |-> h, body |-> [kind |-> "junk", parses |-> FALSE]] :
        h \in SeqsUpTo(HeadBytes, MagicLen)}

BySheet(s) == \A i, j \in DOMAIN s : i < j => s[i].sheetIdx <= s[j].sheetIdx

\* The image mappings of a package, listed in the order of the sheet parts.
ByPart(s) == \A i, j \in DOMAIN s : i < j => s[i].part <= s[j].part

NoRows(sheetNames) == [i \in DOMAIN sheetNames |-> 0]

\* --- legacy workbooks ---
\* An atomic record with `length` bytes of payload.
\* The BSE reading of a payload that holds no BLIP header.
NoBlip == [version |-> 0, instance |-> 0, type |-> 0, length |-> 0, inflated |-> <<>>]

EscherAtom(type, length) ==
    [version |-> 0, instance |-> 0, type |-> type, length |-> length,
     recs |-> <<>>, cbName |-> 0,
     blip |-> NoBlip]

\* A BSE without name whose BLIP holds `raw` image bytes and a single UID;
\* inflated is <<n>> when the image bytes are a zlib stream of n bytes, <<>>
\* when they are not.
BseOf(blipType, raw, inflated) ==
    LET blipLength == ImageDataOffset(blipType, 0) + raw
    IN  [version |-> 2, instance |-> 0, type |-> ESCHER_BSE,
         length |-> 36 + 8 + blipLength, recs |-> <<>>, cbName |-> 0,
         blip |-> [version |-> 0, instance |-> 0, type |-> blipType,
                   length |-> blipLength, inflated |-> inflated]]

\* A BSE whose image bytes are stored as they are.
Bse(blipType, raw) == BseOf(blipType, raw, <<>>)

\* A container holding exactly the given records.
EscherContainer(type, children) ==
    [version |-> 15, instance |-> 0, type |-> type,
     length |-> SumSeq([i \in DOMAIN children |-> 8 + children[i].length]),
     recs |-> children, cbName |-> 0,
     blip |-> NoBlip]

\* The records of an image store: pictures of the sizes and types of
\* interest, and a record that is not a BSE (an empty OPT record).
StoreEntryChoices ==
    {Bse(k[1], k[2]) :
        k \in {<<ESCHER_BLIP_PNG, 3>>, <<ESCHER_BLIP_PNG, 4718592>>,
               <<ESCHER_BLIP_PNG, 7864321>>, <<ESCHER_BLIP_EMF, 3>>}}
      \cup {EscherAtom(61451, 0)}

\* The lists of non-empty stores with at most n records altogether.
RECURSIVE StoreLists(_)
StoreLists(n) ==
    IF n = 0 THEN {<<>>}
    ELSE {<<>>} \cup
         UNION {{<<s>> \o rest : rest \in StoreLists(n - Len(s))} :
                    s \in SeqsUpTo(StoreEntryChoices, n) \ {<<>>}}

\* The drawing group data: one DggContainer around the BStoreContainers.
XlsGroup(stores) ==
    LET dgg == EscherContainer(ESCHER_DGG_CONTAINER,
                   [i \in DOMAIN stores |->
                       EscherContainer(ESCHER_BSTORE_CONTAINER, stores[i])])
    IN  [length |-> 8 + dgg.length, recs |-> <<dgg>>]

\* Drawing group data with up to MaxBlips store records, or an empty store,
\* or one store with metafiles stored compressed: 17 bytes that inflate to
\* 1000, and 7656 bytes that inflate to 7864321.
XlsGroups ==
    LET small == BseOf(ESCHER_BLIP_EMF, 17, <<1000>>)
        large == BseOf(ESCHER_BLIP_EMF, 7656, <<7864321>>)
        compressed == {<<small>>, <<large>>, <<small, large>>,
                       <<Bse(ESCHER_BLIP_PNG, 4718592), small>>}
    IN  {XlsGroup(s) : s \in StoreLists(MaxBlips) \cup {<< <<>> >>}
                                \cup {<<c>> : c \in compressed}}

NoGroup == [length |-> 0, recs |-> <<>>]

XlsAnchorChoices ==
    {[sheetIdx |-> sx, blipIndex |-> k[1],
      fromCol |-> k[2].fromCol, fromRow |-> k[2].fromRow,
      toCol |-> k[2].toCol, toRow |-> k[2].toRow] :
        sx \in 0..1,
        k \in {<<1, RectA>>, <<2, RectA>>, <<1, RectB>>, <<3, RectA>>}}

XlsBody(sheetNames, parses, hasWorkbook, hasGroup, group, drawings) ==
    [kind |-> "xls", parses |-> parses, sheetNames |-> sheetNames,
     hasWorkbook |-> hasWorkbook, hasGroup |-> hasGroup,
     group |-> group, drawings |-> drawings,
     rows |-> NoRows(sheetNames), rowJsonLen |-> 10, columns |-> <<"A">>]

XlsDrawings == {d \in SeqsUpTo(XlsAnchorChoices, MaxAnchors) : BySheet(d)}

XlsFile(body) == [exists |-> TRUE, bytes |-> Ole2Magic, body |-> body]

\* --- damaged drawing group data ---
\* A picture, an empty record that is no BSE, a record whose header
\* declares a negative length, and a BSE shorter than its 36-byte header.
DamagedEntryChoices ==
    {Bse(ESCHER_BLIP_PNG, 3), EscherAtom(61451, 0), EscherAtom(61451, -1),
     EscherAtom(ESCHER_BSE, 8)}

\* A container around the given records whose declared length is `cut`
\* bytes short of them.
CutContainer(type, children, cut) ==
    [version |-> 15, instance |-> 0, type |-> type,
     length |-> SumSeq([i \in DOMAIN children |->
                           8 + Max(children[i].length, 0)]) - cut,
     recs |-> children, cbName |-> 0,
     blip |-> NoBlip]

DamagedStores ==
    {CutContainer(ESCHER_BSTORE_CONTAINER, e, c) :
        e \in SeqsUpTo(DamagedEntryChoices, MaxBlips), c \in {0, 1}}

\* Drawing group data of one DggContainer around one or two such stores.
DamagedGroup(stores) ==
    LET dgg == CutContainer(ESCHER_DGG_CONTAINER, stores, 0)
    IN  [length |-> 8 + dgg.length, recs |-> <<dgg>>]

\* --- workbook streams with sub-streams ---
\* Drawing records: an atom with a payload of 16-bit words or of properties,
\* and a container.
DrawingAtom(type, instance, length, words, props) ==
    [version |-> 0, instance |-> instance, type |-> type, length |-> length,
     recs |-> <<>>, words |-> words, props |-> props]

DrawingContainer(type, children) ==
    [version |-> 15, instance |-> 0, type |-> type,
     length |-> SumSeq([i \in DOMAIN children |-> 8 + children[i].length]),
     recs |-> children, words |-> <<>>, props |-> <<>>]

\* A ClientAnchor of 18 bytes: flags, then col, dx, row, dy of both corners
\* (the offsets dx, dy are 9 throughout).
ClientAnchorRec(rect) ==
    DrawingAtom(ESCHER_CLIENT_ANCHOR, 0, 18,
                <<0, rect.fromCol, 9, rect.fromRow, 9,
                  rect.toCol, 9, rect.toRow, 9>>, <<>>)

\* An OPT record holding exactly the given properties.
OptRec(type, props) == DrawingAtom(type, Len(props), 6 * Len(props), <<>>, props)

\* The picture shape of blip `blipIndex` anchored at `rect`.
PictureShape(blipIndex, rect) ==
    DrawingContainer(ESCHER_SP_CONTAINER,
        <<ClientAnchorRec(rect),
          OptRec(ESCHER_OPT, <<[id |-> PROP_BLIP_ID, value |-> blipIndex]>>)>>)

\* The data of one MsoDrawing record: DgContainer, SpgrContainer, shapes.
DrawingBuffer(shapes) ==
    LET dg == DrawingContainer(61442, <<DrawingContainer(61443, shapes)>>)
    IN  [length |-> 8 + dg.length, recs |-> <<dg>>]

StreamRecordChoices ==
    {[type |-> BIFF_BOF, data |-> NoGroup],
     [type |-> BIFF_EOF, data |-> NoGroup],
     [type |-> BIFF_MSODRAWINGGROUP,
      data |-> XlsGroup(<< <<Bse(ESCHER_BLIP_PNG, 3)>> >>)],
     [type |-> BIFF_MSODRAWING,
      data |-> DrawingBuffer(<<PictureShape(1, RectA)>>)]}

Streams == SeqsUpTo(StreamRecordChoices, MaxStream)

\* --- drawing data of the drawing parser ---
\* The ClientAnchor of a shape: none, one of 18 bytes, or one cut to 8 bytes.
ShapeAnchorChoices ==
    {<<>>, <<ClientAnchorRec(RectA)>>, <<ClientAnchorRec(RectB)>>,
     <<DrawingAtom(ESCHER_CLIENT_ANCHOR, 0, 8, <<0, 0, 9, 0>>, <<>>)>>}

\* The property table of a shape: none, a blip id of 1, another property
\* followed by a blip id of 2 with flag bits set (in an FOPT record), a blip
\* id of 0, or a table without blip id.
ShapeOptChoices ==
    {<<>>,
     <<OptRec(ESCHER_OPT, <<[id |-> PROP_BLIP_ID, value |-> 1]>>)>>,
     <<OptRec(ESCHER_FOPT, <<[id |-> 261, value |-> 5],
                             [id |-> PROP_ID_MASK + PROP_BLIP_ID, value |-> 2]>>)>>,
     <<OptRec(ESCHER_OPT, <<[id |-> PROP_BLIP_ID, value |-> 0]>>)>>,
     <<OptRec(ESCHER_OPT, <<[id |-> 261, value |-> 1]>>)>>}

ShapeChoices ==
    {DrawingContainer(ESCHER_SP_CONTAINER, a \o o) :
        a \in ShapeAnchorChoices, o \in ShapeOptChoices}

\* The shape s with the shape t as its last child.
ShapeAround(s, t) == DrawingContainer(ESCHER_SP_CONTAINER, Append(s.recs, t))

\* --- paths ---
PathChars == {"/", ".", "a"}

\* The strings of n characters of PathChars.
RECURSIVE PathsOfLength(_)
PathsOfLength(n) ==
    IF n = 0 THEN {""}
    ELSE {str \o c : str \in PathsOfLength(n - 1), c \in PathChars}

PathsUpTo(n) == UNION {PathsOfLength(k) : k \in 0..n}

\* --- drawing parts ---
\* The r:embed ids of one anchor element; rId9 is in no rels file.
EmbedChoices ==
    {<<>>, <<"rId1">>, <<"rId9">>, <<"rId1", "rId2">>, <<"rId1", "rId9">>,
     <<"rId2", "rId1">>, <<"rId1", "rId1">>}

\* A two-cell anchor, a two-cell anchor without <xdr:to>, and a one-cell
\* anchor.
AnchorElementChoices ==
    {[twoCell |-> k[1], embeds |-> e, from |-> k[2], to |-> k[3]] :
        e \in EmbedChoices,
        k \in {<<TRUE, <<[col |-> 0, row |-> 0]>>, <<[col |-> 2, row |-> 3]>> >>,
               <<TRUE, <<[col |-> 1, row |-> 4]>>, <<>> >>,
               <<FALSE, <<[col |-> 3, row |-> 5]>>, <<>> >>}}

\* No rels file; rels naming both pictures relative to the drawing; rels
\* naming the first picture twice, once from the package root; rels naming
\* the first picture as /media/image1.png.
DrawingRelsChoices ==
    {[present |-> FALSE, entries |-> <<>>],
     [present |-> TRUE,
      entries |-> <<[id |-> "rId1",
                     target |-> "../media/image1.png"],
                    [id |-> "rId2",
                     target |-> "../media/image2.emf"]>>],
     [present |-> TRUE,
      entries |-> <<[id |-> "rId1",
                     target |-> "/xl/media/image1.png"],
                    [id |-> "rId2",
                     target |-> "../media/image1.png"]>>],
     [present |-> TRUE,
      entries |-> <<[id |-> "rId1",
                     target |-> "/media/image1.png"],
                    [id |-> "rId2",
                     target |-> "../media/image2.emf"]>>]}

\* The two pictures of the package, three bytes each.
DrawingMedia ==
    <<[path |-> "xl/media/image1.png", dir |-> FALSE, dataLen |-> 3],
      [path |-> "xl/media/image2.emf", dir |-> FALSE, dataLen |-> 3]>>

\* --- workbook streams of the record reader ---
BiffRecordChoices ==
    {[type |-> ty, length |-> Len(d), data |-> d] :
        ty \in {BIFF_CONTINUE, BIFF_MSODRAWINGGROUP},
        d \in {<<>>, <<1>>, <<2, 3>>}}

\* The stream of the given records with its last `cut` bytes missing.
BiffStream(recs, cut) ==
    [length |-> Max(SumSeq([i \in DOMAIN recs |-> 4 + recs[i].length]) - cut, 0),
     recs |-> recs]

\* A file standing for a byte buffer handed to a parser.
BufferFile(kind, buf) ==
    [exists |-> TRUE, bytes |-> <<>>,
     body |-> [kind |-> kind, parses |-> FALSE, buf |-> buf]]

\* --- OOXML workbooks ---
\* The pictures of a package, of the sizes of interest.
MediaChoices ==
    {[path |-> p, dir |-> FALSE, dataLen |-> n] :
        p \in {"xl/media/image1.png", "xl/media/image2.emf"}, n \in RawLens}


DistinctPaths(m) == \A i, j \in DOMAIN m : i # j => m[i].path # m[j].path

XlsxMappingChoices ==
    {[part |-> sx, imagePath |-> k[1],
      fromCol |-> k[2].fromCol, fromRow |-> k[2].fromRow,
      toCol |-> k[2].toCol, toRow |-> k[2].toRow] :
        sx \in 0..1,
        k \in {<<"xl/media/image1.png", RectA>>, <<"xl/media/image2.emf", RectA>>,
               <<"xl/media/image1.png", RectB>>, <<"media/image1.png", RectA>>}}

XlsxBody(sheetNames, media, mappings, rows, rowJsonLen) ==
    [kind |-> "xlsx", parses |-> TRUE, sheetNames |-> sheetNames,
     sheetEntries |-> SheetEntriesOf(sheetNames),
     sheetRels |-> SheetRelsOf(sheetNames),
     media |-> media, mappings |-> mappings,
     rows |-> rows, rowJsonLen |-> rowJsonLen, columns |-> <<"A">>]

XlsxFile(body) == [exists |-> TRUE, bytes |-> ZipMagic, body |-> body]

XlsxMedia == {x \in SeqsUpTo(MediaChoices, MaxMedia) : DistinctPaths(x)}

XlsxMappings == {x \in SeqsUpTo(XlsxMappingChoices, MaxAnchors) : ByPart(x)}

NumArgs(S) == {Undefined} \cup {<<n>> : n \in S}

\* The tool names of the requests: the three tools and one unknown name.
ToolNames == {"read_excel", "list_sheets", "get_excel_images", "write_excel"}

\* The arguments of the requests: absent, null, and objects whose keys are
\* absent or of the type the tool expects or of another type.
ArgumentChoices ==
    {JsUndefined, [type |-> "object", null |-> TRUE]}
    \cup {ObjectArguments(fp, sn, sr, mr) :
            fp \in {JsUndefined, JsString("/tmp/book"), JsNumber(7)},
            sn \in {JsUndefined, JsString("S1"), JsString("S9"), JsNumber(1)},
            sr \in {JsUndefined, JsNumber(0), JsNumber(1), JsString("1")},
            mr \in {JsUndefined, JsNumber(1), JsNumber(-1), JsString("1")}}

\* The files behind filePath: none, a file no library reads, a damaged
\* compound file, a workbook with rows, and workbooks with one picture.
ToolFiles ==
    {MissingFile,
     [exists |-> TRUE, bytes |-> <<0>>, body |-> [kind |-> "junk", parses |-> FALSE]],
     XlsFile(XlsBody(<<"S1">>, FALSE, FALSE, FALSE, NoGroup, <<>>)),
     XlsxFile(XlsxBody(<<"S1">>, <<>>, <<>>, <<MaxRows>>, 10)),
     XlsxFile(XlsxDrawingBody(<<"S1">>, DrawingMedia,
                              [anchors |-> <<>>,
                               rels |-> [present |-> FALSE, entries |-> <<>>]]))}

(***************************************************************************)
(* The state machine.  op, file, args and result describe the call that    *)
(* settled last; inflight lists the calls suspended at an await, in the    *)
(* order in which they were started.                                       *)
(***************************************************************************)
Init ==
    /\ op = "idle"
    /\ file = MissingFile
    /\ args = [sheetName |-> None]
    /\ result = NoResult
    /\ pages = <<>>
    /\ inflight = <<>>

\* Nothing has been called yet.
Idle == op = "idle" /\ inflight = <<>>

\* A call that runs to its end without await.
Call(name, f, a, r) ==
    /\ op' = name
    /\ file' = f
    /\ args' = a
    /\ result' = r
    /\ UNCHANGED <<pages, inflight>>

\* A call that reaches an await: its promise stays pending.
Suspend(name, f, a, waits) ==
    /\ inflight' = Append(inflight, Pending(name, f, a, waits))
    /\ UNCHANGED <<op, file, args, result, pages>>

\* A call of an async function runs to its first await, or to its end.
Begin(name, f, a, waits, r) ==
    IF waits = <<>> THEN Call(name, f, a, r) ELSE Suspend(name, f, a, waits)

\* The packages on which a second call is followed while a call is pending.
ConcurrentFiles == {f \in ToolFiles : f.body.kind = "xlsx"}

\* A further call is followed while the calls in flight are fewer than
\* MaxInFlight and all on ConcurrentFiles.  The pagination example is the
\* only client of the server it spawns (basic-usage.ts l.28-37).
Joinable ==
    /\ Len(inflight) < MaxInFlight
    /\ \A i \in DOMAIN inflight :
          inflight[i].file \in ConcurrentFiles /\ inflight[i].name # "paginate"

\* The inputs of a call: those of a first call, or those of a further one.
Inputs(first, further) ==
    IF inflight = <<>> THEN first ELSE IF Joinable THEN further ELSE {}

\* inflight without its i-th call.
Remove(calls, i) == SubSeq(calls, 1, i - 1) \o SubSeq(calls, i + 1, Len(calls))

\* Compound files: a workbook with a global image store, one without
\* MsoDrawingGroup data, or a compound file without workbook stream (which
\* SheetJS may or may not be able to read).
XlsFiles ==
    {XlsFile(XlsBody(n, TRUE, TRUE, TRUE, g, d)) :
        n \in SheetNameLists, g \in XlsGroups, d \in XlsDrawings}
    \cup {XlsFile(XlsBody(n, TRUE, TRUE, FALSE, NoGroup, d)) :
            n \in SheetNameLists, d \in XlsDrawings}
    \cup {XlsFile(XlsBody(n, p, FALSE, FALSE, NoGroup, <<>>)) :
            n \in SheetNameLists, p \in BOOLEAN}

\* Compound files whose workbook stream is a sequence of sub-stream marks,
\* drawing group records and drawing records.
XlsStreamFiles ==
    {XlsFile(XlsStreamBody(n, st)) : n \in SheetNameLists, st \in Streams}

\* Compound files without drawing anchors.
BareXlsFiles ==
    {XlsFile(XlsBody(n, TRUE, TRUE, TRUE, g, <<>>)) :
        n \in SheetNameLists, g \in XlsGroups}

\* OOXML workbooks with pictures and no data rows.
XlsxFiles ==
    UNION {{XlsxFile(XlsxBody(n, m, mp, NoRows(n), 10)) :
               m \in XlsxMedia, mp \in XlsxMappings} :
           n \in SheetNameLists}

\* OOXML workbooks with one sheet whose archive holds, beside pictures under
\* xl/media/ (one of them with an extension in capitals), the directory
\* itself and a picture stored elsewhere, and whose drawing anchors at most
\* one picture.
XlsxArchiveFiles ==
    LET entries ==
            {[path |-> "xl/media/image1.png", dir |-> FALSE, dataLen |-> 3],
             [path |-> "xl/media/image2.emf", dir |-> FALSE, dataLen |-> 3],
             [path |-> "xl/media/image3.PNG", dir |-> FALSE, dataLen |-> 3],
             [path |-> "xl/media/", dir |-> TRUE, dataLen |-> 0],
             [path |-> "xl/embeddings/image1.png", dir |-> FALSE, dataLen |-> 3]}
    IN  {XlsxFile(XlsxBody(<<"S1">>, m, mp, <<0>>, 10)) :
            m \in {x \in SeqsUpTo(entries, MaxMedia) : DistinctPaths(x)},
            mp \in {<<>>, <<[part |-> 0, imagePath |-> "xl/media/image3.PNG",
                            fromCol |-> 0, fromRow |-> 0, toCol |-> 2, toRow |-> 3]>>}}

\* OOXML workbooks of two sheets, S1 and A&B, with two pictures: workbook.xml
\* writes the second name as the workbook holds it or with the character
\* reference XML asks for, or names a relationship the rels lack; the rels
\* give the first target relative to xl/ or from the root of the package.
XlsxWorkbookFiles ==
    LET names == <<"S1", "A&B">>
        media == <<[path |-> "xl/media/image1.png", dir |-> FALSE, dataLen |-> 3],
                   [path |-> "xl/media/image2.emf", dir |-> FALSE, dataLen |-> 3]>>
        entries == {SheetEntriesOf(names),
                    <<[name |-> "S1", rId |-> "rId1"],
                      [name |-> "A&amp;B", rId |-> "rId2"]>>,
                    <<[name |-> "S1", rId |-> "rId1"],
                      [name |-> "A&B", rId |-> "rId9"]>>}
        rels == {SheetRelsOf(names),
                 <<[id |-> "rId1", target |-> "/xl/worksheets/sheet1.xml"],
                   [id |-> "rId2", target |-> "worksheets/sheet2.xml"]>>}
    IN  {XlsxFile([XlsxBody(names, media, mp, NoRows(names), 10)
                      EXCEPT !.sheetEntries = e, !.sheetRels = r]) :
            e \in entries, r \in rels, mp \in XlsxMappings}

\* OOXML workbooks of two sheets, S1 and S2, with two pictures, whose
\* workbook.xml lists the sheets in another order than the parts are
\* numbered or gives both the same relationship, or whose rels cross the
\* targets, repeat an Id or give both sheets one target.
XlsxTabOrderFiles ==
    LET names == <<"S1", "S2">>
        media == <<[path |-> "xl/media/image1.png", dir |-> FALSE, dataLen |-> 3],
                   [path |-> "xl/media/image2.emf", dir |-> FALSE, dataLen |-> 3]>>
        entries == {SheetEntriesOf(names),
                    <<[name |-> "S2", rId |-> "rId2"],
                      [name |-> "S1", rId |-> "rId1"]>>,
                    <<[name |-> "S1", rId |-> "rId1"],
                      [name |-> "S2", rId |-> "rId1"]>>}
        rels == {SheetRelsOf(names),
                 <<[id |-> "rId1", target |-> "worksheets/sheet2.xml"],
                   [id |-> "rId2", target |-> "worksheets/sheet1.xml"]>>,
                 <<[id |-> "rId1", target |-> "worksheets/sheet1.xml"],
                   [id |-> "rId1", target |-> "worksheets/sheet2.xml"],
                   [id |-> "rId2", target |-> "worksheets/sheet2.xml"]>>,
                 <<[id |-> "rId1", target |-> "worksheets/sheet2.xml"],
                   [id |-> "rId2", target |-> "worksheets/sheet2.xml"]>>}
        anchors == {[part |-> sx, imagePath |-> k,
                     fromCol |-> RectA.fromCol, fromRow |-> RectA.fromRow,
                     toCol |-> RectA.toCol, toRow |-> RectA.toRow] :
                       sx \in 0..1,
                       k \in {"xl/media/image1.png", "xl/media/image2.emf",
                              "media/image1.png"}}
    IN  {XlsxFile([XlsxBody(names, media, mp, NoRows(names), 10)
                      EXCEPT !.sheetEntries = e, !.sheetRels = r]) :
            e \in entries, r \in rels,
            mp \in {x \in SeqsUpTo(anchors, MaxAnchors) : ByPart(x)}}

\* OOXML workbooks whose first sheet has one drawing part.
XlsxDrawingFiles ==
    {XlsxFile(XlsxDrawingBody(<<"S1">>, DrawingMedia,
                              [anchors |-> els, rels |-> rels])) :
        els \in SeqsUpTo(AnchorElementChoices, MaxElements),
        rels \in DrawingRelsChoices}

\* Workbooks with data rows and no pictures.
TableFiles ==
    UNION {{XlsxFile(XlsxBody(n, <<>>, <<>>, r, j)) :
               r \in [DOMAIN n -> 0..MaxRows], j \in {10, 25600, 60000}} :
           n \in SheetNameLists}

\* A call of extractImages: it settles at once on a missing file, a file
\* that is no workbook and a compound file, and is suspended at
\* JSZip.loadAsync on a ZIP package.
ExtractImages ==
    /\ op = "idle"
    /\ \E s \in Inputs(SheetArgs, {None}) :
          \E f \in Inputs({MissingFile} \cup JunkFiles \cup XlsFiles \cup XlsxFiles
                              \cup XlsxArchiveFiles \cup XlsxWorkbookFiles
                              \cup XlsxTabOrderFiles
                              \cup (IF s \in {None, "S1"} THEN XlsxDrawingFiles ELSE {}),
                          ConcurrentFiles) :
              Begin("extractImages", f, [sheetName |-> s],
                    ExtractImagesAwaits(f, s), extractImages(f, s))

\* The legacy extractor is exported and can be called directly; the
\* dispatcher only ever hands it compound files.
ExtractXlsImages ==
    /\ Idle
    /\ \E s \in SheetArgs :
          \E f \in {MissingFile} \cup XlsFiles \cup XlsStreamFiles :
              Call("extractXlsImages", f, [sheetName |-> s],
                   extractXlsImages(f, s))

ReadExcelFile ==
    /\ Idle
    /\ \E s \in SheetArgs, sr \in NumArgs(0..MaxRows), mr \in NumArgs(-1..2) :
          \E f \in {MissingFile} \cup TableFiles :
              LET a == [sheetName |-> s, startRow |-> sr, maxRows |-> mr]
              IN  Call("readExcelFile", f, a, readExcelFile(f, a))

ListSheets ==
    /\ Idle
    /\ \E f \in {MissingFile} \cup TableFiles :
          Call("listSheets", f, [sheetName |-> None], listSheets(f))

\* readBiffRecords on a workbook stream, whole or cut short.
ReadBiffRecords ==
    /\ Idle
    /\ \E recs \in SeqsUpTo(BiffRecordChoices, MaxRecords), cut \in 0..MaxCut :
          Call("readBiffRecords", BufferFile("biff", BiffStream(recs, cut)),
               [sheetName |-> None],
               [kind |-> "ok", via |-> "biff",
                records |-> readBiffRecords(BiffStream(recs, cut))])

\* extractBlipsFromDrawingGroup on drawing group data with damaged records.
ExtractBlipsFromDrawingGroup ==
    /\ Idle
    /\ \E s1 \in DamagedStores :
          \E stores \in {<<s1>>} \cup {<<s1, s2>> : s2 \in DamagedStores} :
              Call("extractBlipsFromDrawingGroup",
                   BufferFile("escher", DamagedGroup(stores)),
                   [sheetName |-> None],
                   [kind |-> "ok", via |-> "escher",
                    blips |-> extractBlipsFromDrawingGroup(DamagedGroup(stores))])

\* parseSheetDrawings on drawing data: shapes in the group container of a
\* drawing, in a group nested in it, at the top level of the data, or one
\* inside the other.
ParseSheetDrawings ==
    /\ Idle
    /\ \E shapes \in SeqsUpTo(ShapeChoices, MaxShapes), layout \in 1..4 :
          /\ layout > 1 => Len(shapes) = MaxShapes
          /\ LET rest == Tail(shapes)
                 buf ==
                   CASE layout = 1 -> DrawingBuffer(shapes)
                     [] layout = 2 ->
                          DrawingBuffer(<<shapes[1], DrawingContainer(61443, rest)>>)
                     [] layout = 3 ->
                          [length |-> SumSeq([i \in DOMAIN shapes |->
                                                 8 + shapes[i].length]),
                           recs |-> shapes]
                     [] layout = 4 ->
                          DrawingBuffer(<<ShapeAround(shapes[1], shapes[2])>>)
             IN  Call("parseSheetDrawings", BufferFile("drawing", buf),
                      [sheetName |-> "S1"],
                      [kind |-> "ok", via |-> "drawing",
                       anchors |-> parseSheetDrawings(buf, "S1")])

\* resolveRelativePath on some base directory and target.
ResolveRelativePath ==
    /\ Idle
    /\ \E baseDir \in PathsUpTo(MaxBase), target \in PathsUpTo(MaxTarget) :
          Call("resolveRelativePath", MissingFile,
               [sheetName |-> None, baseDir |-> baseDir, target |-> target],
               [kind |-> "ok", via |-> "path",
                path |-> resolveRelativePath(baseDir, target)])

\* The pagination example (examples/basic-usage.ts l.51-78) sends its first
\* read_excel request, without startRow, and awaits the reply.
PaginateStart ==
    /\ Idle
    /\ \E s \in SheetArgs, mr \in NumArgs(-1..2), n \in SheetNameLists,
          j \in {10, 25600, 60000} :
          \E r \in [DOMAIN n -> 0..MaxRows] :
              Suspend("paginate", XlsxFile(XlsxBody(n, <<>>, <<>>, r, j)),
                      [sheetName |-> s, startRow |-> Undefined, maxRows |-> mr],
                      <<Await("client.callTool", "read_excel")>>)

\* The reply to a request of the example arrives and the example resumes;
\* `pages` collects the chunks received.
PaginateReply ==
    \E i \in DOMAIN inflight :
        /\ inflight[i].name = "paginate"
        /\ LET c == inflight[i]
               response == readExcelFile(c.file, c.args)
           IN  /\ op' = "paginate"
               /\ file' = c.file
               /\ args' = c.args
               /\ result' = response
               /\ pages' = Append(pages, response.currentSheet.chunk)
               /\ inflight' = Remove(inflight, i)

\* The one follow-up of the example (the `if` of l.66): after its first
\* reply, when that has more, it sends a second request whose startRow is
\* the nextChunk.rowStart received, and awaits the reply.
PaginateNext ==
    /\ op = "paginate"
    /\ inflight = <<>>
    /\ Len(pages) = 1
    /\ result.kind = "ok"
    /\ result.currentSheet.hasMore
    /\ result.currentSheet.nextChunk # Undefined
    /\ Suspend("paginate", file,
               [args EXCEPT !.startRow = <<result.currentSheet.nextChunk[1].rowStart>>],
               <<Await("client.callTool", "read_excel")>>)

\* A request to the get_excel_images tool with valid arguments: the handler
\* is suspended in extractImages or, at the latest, awaiting its promise.
GetExcelImages ==
    /\ op = "idle"
    /\ \E s \in Inputs(SheetArgs, {None}) :
          \E f \in Inputs({MissingFile} \cup JunkFiles \cup BareXlsFiles
                              \cup XlsxFiles \cup ConcurrentFiles,
                          ConcurrentFiles) :
              LET a == [sheetName |-> s]
              IN  Suspend("get_excel_images", f, a, GetExcelImagesAwaits(f, a))

\* One request to the CallTool handler: answered at once, or suspended in
\* the get_excel_images branch.
CallTool ==
    /\ op = "idle"
    /\ \E name \in Inputs(ToolNames, ToolNames),
          arguments \in Inputs(ArgumentChoices,
                               {ObjectArguments(JsString("/tmp/book"), JsUndefined,
                                                JsUndefined, JsUndefined)}),
          f \in Inputs(ToolFiles, ConcurrentFiles) :
          LET a == [sheetName |-> None, name |-> name, arguments |-> arguments]
          IN  Begin("callTool", f, a, CallToolAwaits(name, arguments, f),
                    callTool(name, arguments, f))

\* What a suspended call returns or throws once it has passed its awaits.
Outcome(c) ==
    CASE c.name = "extractImages" -> extractImages(c.file, c.args.sheetName)
      [] c.name = "get_excel_images" -> getExcelImages(c.file, c.args)
      [] c.name = "callTool" -> callTool(c.args.name, c.args.arguments, c.file)

\* The event loop resumes one suspended call of extractImages or of the
\* handler: the call runs to its next await, or past its last one to its
\* end, where its promise settles.
Resume ==
    \E i \in DOMAIN inflight :
        /\ inflight[i].name # "paginate"
        /\ LET c == inflight[i]
               rest == Tail(c.waits)
           IN  IF rest # <<>>
               THEN /\ inflight' = [inflight EXCEPT ![i].waits = rest]
                    /\ UNCHANGED <<op, file, args, result, pages>>
               ELSE /\ inflight' = Remove(inflight, i)
                    /\ op' = c.name
                    /\ file' = c.file
                    /\ args' = c.args
                    /\ result' = Outcome(c)
                    /\ UNCHANGED pages

Next ==
    \/ ExtractImages
    \/ ExtractXlsImages
    \/ ReadExcelFile
    \/ ListSheets
    \/ GetExcelImages
    \/ ReadBiffRecords
    \/ ExtractBlipsFromDrawingGroup
    \/ ParseSheetDrawings
    \/ ResolveRelativePath
    \/ PaginateStart
    \/ PaginateReply
    \/ PaginateNext
    \/ CallTool
    \/ Resume

Spec == Init /\ [][Next]_vars

(***************************************************************************)
(* Vocabulary of the properties.                                           *)
(***************************************************************************)
ImageOps == {"extractImages", "extractXlsImages"}

\* The call returned {images, truncated}.
ImagesReturned == op \in ImageOps /\ result.kind = "ok"

\* A ceiling no file of the model reaches.
NoCeiling == 100 * MAX_IMAGES_SIZE

\* The same call with the size ceiling lifted.
Unbudgeted ==
    IF op = "extractXlsImages" THEN XlsExtract(file, args.sheetName, NoCeiling)
    ELSE Extract(file, args.sheetName, NoCeiling)

\* The candidate order: what the call emits when no ceiling stops it.
Candidates == Unbudgeted.images

\* The same call without a sheet filter.
Unfiltered ==
    IF op = "extractXlsImages" THEN extractXlsImages(file, None)
    ELSE extractImages(file, None)

DataLens(images) == [i \in DOMAIN images |-> images[i].dataLen]

FilterActive == Truthy(args.sheetName)

\* The file is a workbook the libraries read (an OOXML package, or a compound
\* file with its workbook stream).
ValidWorkbook ==
    /\ file.exists
    /\ file.body.kind \in {"xlsx", "xls"}
    /\ file.body.parses
    /\ file.body.kind = "xls" => file.body.hasWorkbook

OnSheet(positions, s) == \E i \in DOMAIN positions : positions[i].sheet = s

RestrictTo(positions, s) ==
    LET on(p) == p.sheet = s IN SelectSeq(positions, on)

(***************************************************************************)
(* C1: in every extraction result (either path, with or without a sheet    *)
(* filter) the base64 lengths of the emitted images sum to at most         *)
(* 10 * 1024 * 1024 = 10485760.                                            *)
(***************************************************************************)
C1_TotalWithinCeiling ==
    ImagesReturned => SumSeq(DataLens(result.images)) <= 10485760

\* Witness: a truncated result that kept an image: the next candidate would
\* have taken the total over the ceiling.
C1_Witness ==
    /\ ImagesReturned
    /\ result.truncated
    /\ Len(result.images) >= 1
    /\ Len(Candidates) > Len(result.images)
    /\ SumSeq(DataLens(result.images))
           + Candidates[Len(result.images) + 1].dataLen > 10485760

(***************************************************************************)
(* C2: truncated is true if and only if at least one image was dropped     *)
(* from the result because of the ceiling, i.e. at least one image the     *)
(* call would emit without the ceiling is missing from the result.         *)
(***************************************************************************)
C2_TruncatedIffDropped ==
    ImagesReturned => (result.truncated <=> Len(result.images) < Len(Candidates))

(***************************************************************************)
(* C3: emission stops at the first image that fails the budget test: the   *)
(* emitted images are a prefix of the candidate order (no image after the  *)
(* failing one is emitted, even one that would fit; on the OOXML path the  *)
(* unreferenced-media phase is skipped), and truncated is set whenever a   *)
(* candidate is missing.                                                   *)
(***************************************************************************)
C3_EmittedIsPrefix ==
    ImagesReturned =>
        /\ IsPrefix(result.images, Candidates)
        /\ result.images # Candidates => result.truncated

\* Witness: emission stopped although the last candidate would still fit.
C3_Witness ==
    /\ ImagesReturned
    /\ result.truncated
    /\ Len(Candidates) >= Len(result.images) + 2
    /\ SumSeq(DataLens(result.images))
           + Candidates[Len(Candidates)].dataLen <= MAX_IMAGES_SIZE

(***************************************************************************)
(* C4: when a sheet filter S is active, every emitted image (either path)  *)
(* has at least one position and all its positions are on S.               *)
(***************************************************************************)
C4_FilteredPositions ==
    (ImagesReturned /\ FilterActive) =>
        \A i \in DOMAIN result.images :
            /\ result.images[i].positions # <<>>
            /\ \A j \in DOMAIN result.images[i].positions :
                   result.images[i].positions[j].sheet = args.sheetName

\* Witness: a filtered result with an image that, unfiltered, is also placed
\* on another sheet.
C4_Witness ==
    /\ ImagesReturned
    /\ FilterActive
    /\ Len(result.images) >= 1
    /\ \E i \in DOMAIN Unfiltered.images :
           /\ Unfiltered.images[i].name = result.images[1].name
           /\ \E j \in DOMAIN Unfiltered.images[i].positions :
                  Unfiltered.images[i].positions[j].sheet # args.sheetName

(***************************************************************************)
(* C5: for every workbook and every sheet name S of it, extract(file, S)   *)
(* yields the same set of images as extract(file) followed by retaining    *)
(* the images with at least one position on S; on the OOXML path each      *)
(* surviving image carries its unfiltered positions restricted to S, on    *)
(* the legacy path an image is reported only when it has an anchor on S.   *)
(***************************************************************************)
\* An image without its positions.
Bare(img) == [name |-> img.name, mimeType |-> img.mimeType, dataLen |-> img.dataLen]

\* The unfiltered result, retained to the images placed on s.
Retained(s) ==
    LET placed(img) == OnSheet(img.positions, s)
    IN  SelectSeq(Unfiltered.images, placed)

\* The filtered call agrees with filtering the unfiltered call's result.
FilterCommutes ==
    LET s == args.sheetName
        kept == Retained(s)
    IN  IF file.body.kind = "xlsx"
        THEN Range(result.images) =
                 {[name |-> u.name, mimeType |-> u.mimeType, dataLen |-> u.dataLen,
                   positions |-> RestrictTo(u.positions, s)] : u \in Range(kept)}
        ELSE {Bare(img) : img \in Range(result.images)} =
                 {Bare(u) : u \in Range(kept)}

\* A call filtered to one of the workbook's own sheets returned images.
FilteredToOwnSheet ==
    /\ ImagesReturned
    /\ FilterActive
    /\ args.sheetName \in Range(file.body.sheetNames)

\* The claim as stated.
C5_FilterCommutes == FilteredToOwnSheet => FilterCommutes

\* The claim as amended: on the OOXML path the equality is claimed only when
\* the unfiltered extraction is not truncated.
C5_FilterCommutesUntruncated ==
    (FilteredToOwnSheet /\ (file.body.kind = "xlsx" => ~Unfiltered.truncated))
        => FilterCommutes

\* Witness: an OOXML image placed on two sheets, filtered to one of them, the
\* unfiltered extraction complete.
C5_Witness ==
    /\ FilteredToOwnSheet
    /\ file.body.kind = "xlsx"
    /\ ~Unfiltered.truncated
    /\ Len(result.images) >= 1
    /\ \E i \in DOMAIN Unfiltered.images :
           /\ OnSheet(Unfiltered.images[i].positions, args.sheetName)
           /\ RestrictTo(Unfiltered.images[i].positions, args.sheetName)
                  # Unfiltered.images[i].positions

(***************************************************************************)
(* C6: extractImages decides the format from the first four bytes of an    *)
(* existing file: OOXML pipeline for 50 4B .., legacy pipeline for         *)
(* D0 CF 11 E0, an invalid-file error otherwise, and an invalid-file error *)
(* for a file shorter than four bytes; exactly one of these occurs.        *)
(***************************************************************************)
InvalidFileError ==
    /\ result.kind = "error"
    /\ result.code = "InvalidRequest"
    /\ result.via = "none"
    /\ result.message \in {"File is too small to be a valid Excel file.",
                           "File is not a valid Excel file."}

C6_DispatchByMagic ==
    (op = "extractImages" /\ file.exists) =>
        LET b == file.bytes
            zip == Len(b) >= 4 /\ b[1] = 80 /\ b[2] = 75
            ole == Len(b) >= 4 /\ b = <<208, 207, 17, 224>>
        IN  /\ zip => result.via = "ooxml"
            /\ ole => result.via = "legacy"
            /\ (~zip /\ ~ole) => InvalidFileError
            /\ Len(b) < 4 => InvalidFileError
            /\ result.via \in {"ooxml", "legacy"} => ~InvalidFileError

\* Witness: a file that shares only the first two bytes of the compound-file
\* magic is rejected.
C6_Witness ==
    /\ op = "extractImages"
    /\ file.exists
    /\ file.bytes = <<208, 207, 0, 0>>
    /\ InvalidFileError

(***************************************************************************)
(* C7: for every entry point (extractImages, extractXlsImages,             *)
(* readExcelFile, listSheets) a path that does not exist yields an error   *)
(* whose message is 'File not found' (of kind InvalidRequest for the image *)
(* engine), before any other check and with no result.                     *)
(***************************************************************************)
C7_MissingFileRejected ==
    (op \in ImageOps \cup {"readExcelFile", "listSheets"} /\ ~file.exists) =>
        /\ result.kind = "error"
        /\ result.message = "File not found"
        /\ op \in ImageOps => result.code = "InvalidRequest"

\* Witness: the legacy extractor, called for a missing file with a sheet
\* name it could not check, reports the missing file.
C7_Witness ==
    /\ op = "extractXlsImages"
    /\ ~file.exists
    /\ args.sheetName = "S9"
    /\ result.kind = "error"
    /\ result.message = "File not found"

(***************************************************************************)
(* C8: a requested sheetName that is not one of the workbook's sheet names *)
(* makes extraction fail with InvalidRequest on both paths, whether or not *)
(* the workbook holds images, and no images are returned.                  *)
(***************************************************************************)
SheetNotFoundError ==
    /\ result.kind = "error"
    /\ result.code = "InvalidRequest"
    /\ result.message = "Sheet not found"

\* An image call on a workbook SheetJS reads.
ReadableWorkbookCall ==
    /\ op \in ImageOps
    /\ file.exists
    /\ file.body.kind \in {"xlsx", "xls"}
    /\ file.body.parses

\* The claim as stated: any sheetName that was passed.
C8_UnknownSheetRejected ==
    (/\ ReadableWorkbookCall
     /\ args.sheetName # None
     /\ args.sheetName \notin Range(file.body.sheetNames)) => SheetNotFoundError

\* The claim as amended: any non-empty sheetName.
C8_UnknownNonEmptySheetRejected ==
    (/\ ReadableWorkbookCall
     /\ args.sheetName # None
     /\ args.sheetName # ""
     /\ args.sheetName \notin Range(file.body.sheetNames)) => SheetNotFoundError

\* Witness: a workbook with a stored image asked for a sheet it does not have.
C8_Witness ==
    /\ ReadableWorkbookCall
    /\ args.sheetName = "S9"
    /\ SheetNotFoundError
    /\ Unfiltered.kind = "ok"
    /\ Len(Unfiltered.images) >= 1

(***************************************************************************)
(* C9: a compound file with neither a /Workbook nor a /Book stream makes   *)
(* extraction fail with error kind InvalidFormat, distinct from            *)
(* InvalidRequest.                                                         *)
(***************************************************************************)
NoWorkbookStreamCall ==
    /\ op \in ImageOps
    /\ file.exists
    /\ file.body.kind = "xls"
    /\ ~file.body.hasWorkbook

\* The claim as stated.
C9_MissingStreamInvalidFormat ==
    NoWorkbookStreamCall =>
        (result.kind = "error" /\ result.code = "InvalidFormat")

\* The claim as amended: the call fails, and the engine's own stream check
\* (reached when SheetJS reads the file and the sheet name passes) raises
\* InvalidRequest.
C9_MissingStreamInvalidRequest ==
    NoWorkbookStreamCall =>
        /\ result.kind = "error"
        /\ (file.body.parses /\ ~SheetNotFoundError) =>
               /\ result.code = "InvalidRequest"
               /\ result.message = "Cannot find Workbook stream in .xls file"

C9_Witness ==
    /\ NoWorkbookStreamCall
    /\ result.kind = "error"
    /\ result.code = "InvalidRequest"
    /\ result.message = "Cannot find Workbook stream in .xls file"

(***************************************************************************)
(* C10: a valid workbook of either format without embedded pictures gives  *)
(* images = [] and truncated = false and never an error, with no filter or *)
(* with a filter naming an existing sheet.                                 *)
(***************************************************************************)
\* The BSE records in the image stores of a legacy workbook.
StoredPictures ==
    {r \in UNION {Range(st.recs) :
                     st \in UNION {Range(dgg.recs) :
                                      dgg \in Range(file.body.group.recs)}} :
         r.type = ESCHER_BSE}

\* The pictures of a package: its files under xl/media/, in package order.
PackageMedia ==
    LET picture(m) == ~m.dir /\ StartsWith(m.path, "xl/media/")
    IN  SelectSeq(file.body.media, picture)

NoPictures ==
    IF file.body.kind = "xlsx" THEN PackageMedia = <<>>
    ELSE ~file.body.hasGroup \/ StoredPictures = {}

C10_NoPicturesEmptyResult ==
    (/\ op \in ImageOps
     /\ ValidWorkbook
     /\ NoPictures
     /\ ~FilterActive \/ args.sheetName \in Range(file.body.sheetNames)) =>
        /\ result.kind = "ok"
        /\ result.images = <<>>
        /\ result.truncated = FALSE

\* Witness: a legacy workbook with drawing anchors but an empty image store,
\* filtered to a sheet it has.
C10_Witness ==
    /\ op \in ImageOps
    /\ ValidWorkbook
    /\ file.body.kind = "xls"
    /\ file.body.hasGroup
    /\ file.body.group.length > 0
    /\ StoredPictures = {}
    /\ file.body.drawings # <<>>
    /\ args.sheetName = "S1"
    /\ result.kind = "ok"
    /\ result.images = <<>>

(***************************************************************************)
(* C11: every position emitted by either path satisfies                    *)
(* 0 <= fromRow <= toRow and 0 <= fromCol <= toCol, whatever rectangle the *)
(* file's anchor encodes.                                                  *)
(***************************************************************************)
\* The positions of all images of the result, flattened.
EmittedPositions ==
    UNION {Range(result.images[i].positions) : i \in DOMAIN result.images}

C11_RectanglesOrdered ==
    ImagesReturned =>
        \A p \in EmittedPositions :
            /\ 0 <= p.fromRow /\ p.fromRow <= p.toRow
            /\ 0 <= p.fromCol /\ p.fromCol <= p.toCol

(***************************************************************************)
(* C12: the sheet of every emitted position is the name of a worksheet of  *)
(* the workbook; on the legacy path the drawings of a sheet sub-stream     *)
(* whose index has no sheet name contribute no position.                   *)
(***************************************************************************)
\* The drawings of the legacy file that sit in a sub-stream without name.
NamelessDrawings ==
    LET nameless(d) == d.sheetIdx >= Len(file.body.sheetNames)
    IN  SelectSeq(file.body.drawings, nameless)

\* The positions the drawings of the named sub-streams account for.
NamedDrawingCount ==
    LET named(d) == d.sheetIdx < Len(file.body.sheetNames)
    IN  Len(SelectSeq(file.body.drawings, named))

C12_SheetsExist ==
    ImagesReturned =>
        /\ \A p \in EmittedPositions : p.sheet \in Range(file.body.sheetNames)
        /\ file.body.kind = "xls" =>
               \A i \in DOMAIN result.images :
                   Len(result.images[i].positions) <= NamedDrawingCount

\* The image mappings of the OOXML package found under a sheet part whose
\* <sheet> element carries a name the workbook does not hold.
UnnamedPartMappings ==
    LET b == file.body
        unnamed(m) ==
            \E e \in Range(b.sheetEntries) :
                LET found(r) == r.id = e.rId
                    rels == SelectSeq(b.sheetRels, found)
                IN  /\ rels # <<>>
                    /\ SheetTarget(rels[1].target) = SheetPath(m.part)
                    /\ IndexOf(b.sheetNames, e.name) = -1
    IN  SelectSeq(b.mappings, unnamed)

\* Witness: an OOXML result with a placed image, from a package that also
\* anchors a stored picture on a sheet part whose <sheet> element writes a
\* name the workbook does not hold.
C12_Witness ==
    /\ ImagesReturned
    /\ file.body.kind = "xlsx"
    /\ EmittedPositions # {}
    /\ \E i \in DOMAIN UnnamedPartMappings :
           \E m \in Range(file.body.media) :
               UnnamedPartMappings[i].imagePath = m.path

\* A legacy result with a placed image, from a workbook that also has a
\* drawing for the same picture in a sub-stream without sheet name.
C12_LegacyWitness ==
    /\ ImagesReturned
    /\ file.body.kind = "xls"
    /\ EmittedPositions # {}
    /\ \E i \in DOMAIN NamelessDrawings, j \in DOMAIN result.images :
           result.images[j].name =
               "image" \o ToString(NamelessDrawings[i].blipIndex) \o ".png"

(***************************************************************************)
(* C13: in every legacy result the images are ordered by BSE index: the    *)
(* index N in the name image<N><extension> of each emitted image is        *)
(* strictly greater than that of the image before it.                      *)
(***************************************************************************)
LegacyReturned == ImagesReturned /\ file.body.kind = "xls"

\* The N of the name image<N><extension> of a legacy image.
NameIndex(img) ==
    CHOOSE n \in 1..(MaxBlips + 1) :
        \E blipType \in {ESCHER_BLIP_PNG, ESCHER_BLIP_EMF} :
            img.name = "image" \o ToString(n) \o getMimeAndExt(blipType).extension

C13_LegacyIndexAscending ==
    LegacyReturned =>
        \A i \in 1..(Len(result.images) - 1) :
            NameIndex(result.images[i]) < NameIndex(result.images[i + 1])

(***************************************************************************)
(* C14: in every OOXML result the images with at least one anchor come     *)
(* first, in the order in which the correlator first saw them, followed by *)
(* the remaining xl/media entries with an empty position list; the         *)
(* unreferenced entries are emitted only if no sheet filter was requested. *)
(***************************************************************************)
OoxmlReturned == ImagesReturned /\ file.body.kind = "xlsx"

\* The image paths of the anchors on the sheets asked for, each at its first
\* occurrence: the keys of imageMap, in its order.
FirstSeenPaths ==
    LET imageMap == ImageMap(ImageMappings(file.body, args.sheetName), 1, <<>>)
    IN  [k \in DOMAIN imageMap |-> imageMap[k].key]

\* mediaFiles.get(path), as the archive entry whose data the key holds: every
\* picture is set under its archive path and under media/<fileName>, a later
\* set of a key replacing the earlier; <<>> where the key is not set.
MediaSource(path) ==
    LET held(m) == path \in {m.path, RelsKeyOf(m.path)}
        holders == SelectSeq(PackageMedia, held)
    IN  IF holders = <<>> THEN <<>> ELSE <<holders[Len(holders)]>>

\* The path names a stored media entry, in full or relative to xl/.
StoredAs(path) == MediaSource(path) # <<>>

\* The names of the anchored images, in first-seen order.
AnchoredNames ==
    LET stored == SelectSeq(FirstSeenPaths, StoredAs)
    IN  [k \in DOMAIN stored |-> FileNameOf(stored[k])]

\* What C14 calls the remaining xl/media entries: the pictures of the
\* package that are the source of no anchored image, in package order.
UnreferencedNames ==
    LET unseen(m) == \A p \in Range(FirstSeenPaths) : MediaSource(p) # <<m>>
        rest == SelectSeq(PackageMedia, unseen)
    IN  [k \in DOMAIN rest |-> FileNameOf(rest[k].path)]

NamesOf(images) == [k \in DOMAIN images |-> images[k].name]

PlacedPart ==
    LET placed(img) == img.positions # <<>> IN SelectSeq(result.images, placed)

UnplacedPart ==
    LET unplaced(img) == img.positions = <<>> IN SelectSeq(result.images, unplaced)

C14_OoxmlOrder ==
    OoxmlReturned =>
        /\ result.images = PlacedPart \o UnplacedPart
        /\ IsPrefix(NamesOf(PlacedPart), AnchoredNames)
        /\ IsPrefix(NamesOf(UnplacedPart), UnreferencedNames)
        /\ UnplacedPart # <<>> => NamesOf(PlacedPart) = AnchoredNames
        /\ FilterActive => UnplacedPart = <<>>
        /\ ~result.truncated =>
               /\ NamesOf(PlacedPart) = AnchoredNames
               /\ ~FilterActive => NamesOf(UnplacedPart) = UnreferencedNames

\* Restricted to packages whose drawings name their pictures under
\* xl/media/, the order is as claimed.
C14_HoldsWithoutAlias ==
    (OoxmlReturned
       /\ \A i \in DOMAIN file.body.mappings :
              StartsWith(file.body.mappings[i].imagePath, "xl/media/")) =>
        C14_OoxmlOrder

(***************************************************************************)
(* C15: on the legacy path a BLIP with no anchors at all is dropped: every *)
(* image of a legacy result has a non-empty positions list, whether or not *)
(* a sheet filter is given.                                                *)
(***************************************************************************)
C15_LegacyImagesPlaced ==
    LegacyReturned =>
        \A i \in DOMAIN result.images : result.images[i].positions # <<>>

(***************************************************************************)
(* C16: for get_excel_images the transport returns a first text block      *)
(* whose metadata lists every extracted image (imageCount = number of      *)
(* images), followed by exactly one image block per image whose MIME type  *)
(* is neither image/x-emf nor image/x-wmf, in extraction order; EMF/WMF    *)
(* images are in the metadata but never in an image block; the metadata    *)
(* has a warnings field iff the result is truncated or holds an EMF/WMF    *)
(* image.                                                                  *)
(***************************************************************************)
\* What the engine returned to the handler.
Extracted == extractImages(file, args.sheetName)

ToolReplied ==
    /\ op = "get_excel_images"
    /\ Extracted.kind = "ok"

IsMetafile(img) == img.mimeType = "image/x-emf" \/ img.mimeType = "image/x-wmf"

\* The number of images up to the i-th that are no metafiles.
ShownUpTo(images, i) == Cardinality({j \in 1..i : ~IsMetafile(images[j])})

C16_ToolReply ==
    ToolReplied =>
        LET images == Extracted.images
            meta == result.text.json
        IN  /\ result.kind = "content"
            /\ result.text.type = "text"
            /\ meta.imageCount = Len(images)
            /\ Len(meta.images) = Len(images)
            /\ \A i \in DOMAIN images :
                   /\ meta.images[i].name = images[i].name
                   /\ meta.images[i].mimeType = images[i].mimeType
                   /\ meta.images[i].positions = images[i].positions
            /\ Len(result.blocks) = ShownUpTo(images, Len(images))
            /\ \A k \in DOMAIN result.blocks :
                   /\ result.blocks[k].type = "image"
                   /\ ~IsMetafile(result.blocks[k])
            /\ \A i \in DOMAIN images :
                   ~IsMetafile(images[i]) =>
                       /\ result.blocks[ShownUpTo(images, i)].mimeType = images[i].mimeType
                       /\ result.blocks[ShownUpTo(images, i)].dataLen = images[i].dataLen
            /\ "warnings" \in DOMAIN meta <=>
                   (Extracted.truncated \/ \E i \in DOMAIN images : IsMetafile(images[i]))

\* Witness: a reply for a metafile followed by a displayable image of another
\* size, not truncated: two images listed, one image block, a warning.
C16_Witness ==
    /\ ToolReplied
    /\ ~Extracted.truncated
    /\ Len(Extracted.images) = 2
    /\ IsMetafile(Extracted.images[1])
    /\ ~IsMetafile(Extracted.images[2])
    /\ Extracted.images[1].dataLen # Extracted.images[2].dataLen
    /\ Len(result.blocks) = 1
    /\ "warnings" \in DOMAIN result.text.json

(***************************************************************************)
(* C17: readExcelFile returns chunk.rowStart = startRow, chunk.rowEnd =    *)
(* min(startRow + effectiveMaxRows, totalRows) and hasMore = (rowEnd <     *)
(* totalRows); nextChunk is defined with rowStart = chunk.rowEnd when      *)
(* hasMore is true and absent when it is false; for a sheet with zero rows *)
(* it returns totalRows = 0, an empty chunk and hasMore = false.           *)
(***************************************************************************)
ReaderReturned == op = "readExcelFile" /\ result.kind = "ok"

\* The sheet read: the one asked for, else the first.
SheetRead ==
    IF Truthy(args.sheetName) THEN args.sheetName ELSE file.body.sheetNames[1]

\* The number of data rows of the sheet read (none if there is no such sheet).
RowsOfSheetRead ==
    LET at == {i \in DOMAIN file.body.sheetNames : file.body.sheetNames[i] = SheetRead}
    IN  IF at = {} THEN 0 ELSE file.body.rows[CHOOSE i \in at : TRUE]

\* startRow, 0 by default.
StartRowAsked == IF args.startRow = <<>> THEN 0 ELSE args.startRow[1]

\* maxRows when given and not 0, else the rows that fit 100 KiB at twice the
\* JSON length of the first row (at least 1), or 100 for a sheet without rows.
EffectiveMaxRows ==
    IF args.maxRows # <<>> /\ args.maxRows[1] # 0 THEN args.maxRows[1]
    ELSE IF RowsOfSheetRead = 0 THEN 100
    ELSE IF 102400 \div (2 * file.body.rowJsonLen) < 1 THEN 1
    ELSE 102400 \div (2 * file.body.rowJsonLen)

Paginated ==
    LET sheet == result.currentSheet
    IN  /\ sheet.totalRows = RowsOfSheetRead
        /\ sheet.chunk.rowStart = StartRowAsked
        /\ sheet.chunk.rowEnd =
               (IF StartRowAsked + EffectiveMaxRows < sheet.totalRows
                THEN StartRowAsked + EffectiveMaxRows ELSE sheet.totalRows)
        /\ sheet.hasMore = (sheet.chunk.rowEnd < sheet.totalRows)
        /\ sheet.hasMore =>
               /\ sheet.nextChunk # <<>>
               /\ sheet.nextChunk[1].rowStart = sheet.chunk.rowEnd
        /\ ~sheet.hasMore => sheet.nextChunk = <<>>
        /\ RowsOfSheetRead = 0 =>
               /\ sheet.totalRows = 0
               /\ sheet.chunk.data = <<>>
               /\ sheet.hasMore = FALSE

C17_Pagination == ReaderReturned => Paginated

(***************************************************************************)
(* Vocabulary of the record reader's properties.                           *)
(***************************************************************************)
BiffReturned == op = "readBiffRecords" /\ result.kind = "ok"

\* The number of records of the stream that lie in the buffer entirely.
BiffFitCount ==
    LET buf == file.body.buf
    IN  Cardinality({k \in DOMAIN buf.recs :
            SumSeq([i \in 1..k |-> 4 + buf.recs[i].length]) <= buf.length})

\* The records read: those before the first one that the buffer cuts.
BiffRead == SubSeq(file.body.buf.recs, 1, BiffFitCount)

\* The payloads of records[from..to], one after the other.
RECURSIVE ConcatData(_, _, _)
ConcatData(records, from, to) ==
    IF from > to THEN <<>>
    ELSE records[from].data \o ConcatData(records, from + 1, to)

\* The positions in BiffRead of the records that are no CONTINUE.
BiffHeads ==
    LET head(k) == BiffRead[k].type # BIFF_CONTINUE
    IN  SelectSeq([k \in DOMAIN BiffRead |-> k], head)

\* The last position of the run of CONTINUE records after the j-th head.
BiffRunEnd(j) ==
    IF j < Len(BiffHeads) THEN BiffHeads[j + 1] - 1 ELSE Len(BiffRead)

(***************************************************************************)
(* C18: readBiffRecords appends the payload of every CONTINUE record to    *)
(* the data of the record before it: each returned record's data is its    *)
(* own payload followed by the payloads of the CONTINUE records that       *)
(* directly follow it, in stream order, and there are as many returned     *)
(* records as non-CONTINUE records read.                                   *)
(***************************************************************************)
C18_ContinueAppended ==
    BiffReturned =>
        /\ Len(result.records) = Len(BiffHeads)
        /\ \A j \in DOMAIN BiffHeads :
               /\ j \in DOMAIN result.records
               /\ result.records[j].type = BiffRead[BiffHeads[j]].type
               /\ result.records[j].data =
                      ConcatData(BiffRead, BiffHeads[j], BiffRunEnd(j))

(***************************************************************************)
(* C19: the list returned by readBiffRecords never holds a record of type  *)
(* CONTINUE (0x003C), and a CONTINUE with no predecessor is ignored: its   *)
(* payload joins no record.                                                *)
(***************************************************************************)
C19_ContinueInvisible ==
    BiffReturned =>
        /\ \A j \in DOMAIN result.records : result.records[j].type # BIFF_CONTINUE
        /\ ConcatData(result.records, 1, Len(result.records)) =
               (IF BiffHeads = <<>> THEN <<>>
                ELSE ConcatData(BiffRead, BiffHeads[1], Len(BiffRead)))

(***************************************************************************)
(* C20: a truncated or malformed record ends the traversal of its          *)
(* container level without failing the request: readBiffRecords returns    *)
(* the records parsed before a record whose declared length exceeds the    *)
(* remaining bytes; in iterEscherRecords a record whose length is negative *)
(* or exceeds the remaining bytes ends the iteration of that level only,   *)
(* the records yielded before it and the sibling and parent levels being   *)
(* unaffected.                                                             *)
(***************************************************************************)
EscherReturned == op = "extractBlipsFromDrawingGroup" /\ result.kind = "ok"

\* The number of leading records of a level that are sound: each declares a
\* length that is not negative and ends within the `length` bytes of the level.
SoundCount(length, recs) ==
    Cardinality({k \in DOMAIN recs :
        \A i \in 1..k :
            /\ recs[i].length >= 0
            /\ SumSeq([m \in 1..i |-> 8 + recs[m].length]) <= length})

\* The positions of the pictures among the sound records of a store.
SoundPictures(store) ==
    LET picture(k) == ~BseSkipped(store.recs[k])
    IN  SelectSeq([k \in 1..SoundCount(store.length, store.recs) |-> k], picture)

\* The same for the stores from the k-th to the n-th, one after the other.
RECURSIVE SoundPicturesFrom(_, _, _)
SoundPicturesFrom(stores, k, n) ==
    IF k > n THEN <<>>
    ELSE SoundPictures(stores[k]) \o SoundPicturesFrom(stores, k + 1, n)

\* The DggContainer of the damaged drawing group data.
DamagedDgg == file.body.buf.recs[1]

C20_DamageEndsLevel ==
    /\ BiffReturned =>
           ConcatData(result.records, 1, Len(result.records)) =
               ConcatData(BiffRead, 1, Len(BiffRead))
    /\ EscherReturned =>
           [i \in DOMAIN result.blips |-> result.blips[i].index] =
               SoundPicturesFrom(DamagedDgg.recs, 1,
                                 SoundCount(DamagedDgg.length, DamagedDgg.recs))

\* Witness: a store whose second record does not fit, after a picture that
\* does, and a sound sibling store: both pictures are returned.
C20_Witness ==
    /\ EscherReturned
    /\ Len(DamagedDgg.recs) = 2
    /\ Len(DamagedDgg.recs[1].recs) = 2
    /\ DamagedDgg.recs[1].recs[1].type = ESCHER_BSE
    /\ SoundCount(DamagedDgg.recs[1].length, DamagedDgg.recs[1].recs) = 1
    /\ SoundPictures(DamagedDgg.recs[2]) = <<1>>
    /\ Len(result.blips) = 2

\* Witness of the record reader's case: a stream cut inside its third
\* record, whose first two records are returned.
C20_BiffWitness ==
    /\ BiffReturned
    /\ Len(file.body.buf.recs) = 3
    /\ BiffFitCount = 2
    /\ file.body.buf.recs[2].type # BIFF_CONTINUE
    /\ Len(result.records) = 2

(***************************************************************************)
(* Sub-streams of the workbook stream.                                     *)
(***************************************************************************)
\* A legacy call on a workbook given by its stream returned images.
StreamReturned == LegacyReturned /\ "stream" \in DOMAIN file.body

\* The sub-stream counter once the j-th record was read: BOFs so far, less 1.
StreamIndexAt(stream, j) ==
    Cardinality({i \in 1..j : stream[i].type = BIFF_BOF}) - 1

\* A sub-stream is open once the j-th record was read: some BOF was read and
\* no EOF since.
StreamOpenAt(stream, j) ==
    \E i \in 1..j : /\ stream[i].type = BIFF_BOF
                    /\ \A m \in (i + 1)..j : stream[m].type # BIFF_EOF

\* The records of s at the positions P, in order.
SubSeqAt(s, P) ==
    [i \in 1..Cardinality(P) |->
        s[CHOOSE j \in P : Cardinality({m \in P : m < j}) = i - 1]]

\* The positions of the drawing group records outside the globals sub-stream.
StrayGroups(stream) ==
    {j \in DOMAIN stream : /\ stream[j].type = BIFF_MSODRAWINGGROUP
                           /\ StreamIndexAt(stream, j) # 0}

\* C21: MsoDrawingGroup records are collected from the globals sub-stream
\* only: the result is the result for the stream without the drawing group
\* records of the worksheet sub-streams and those before the first BOF.
C21_GroupFromGlobalsOnly ==
    StreamReturned =>
        result = extractXlsImages(
                     XlsFile(XlsStreamBody(file.body.sheetNames,
                         SubSeqAt(file.body.stream,
                                  DOMAIN file.body.stream
                                    \ StrayGroups(file.body.stream)))),
                     args.sheetName)

\* The positions of the MsoDrawing records read while the counter is at
\* least 1 and the sub-stream open.
AttributedDrawings(stream) ==
    {j \in DOMAIN stream : /\ stream[j].type = BIFF_MSODRAWING
                           /\ StreamIndexAt(stream, j) >= 1
                           /\ StreamOpenAt(stream, j)}

\* The sheets the drawings of the stream are attributed to, in stream order,
\* as far as the workbook names them.
AttributedSheets(stream, sheetNames) ==
    LET named == {j \in AttributedDrawings(stream) :
                     StreamIndexAt(stream, j) - 1 < Len(sheetNames)}
        drawn == SubSeqAt([j \in DOMAIN stream |-> j], named)
    IN  [i \in DOMAIN drawn |-> sheetNames[StreamIndexAt(stream, drawn[i])]]

\* C22: an MsoDrawing record is attributed to worksheet i-1 exactly when it
\* is read while the counter is i >= 1 and the sub-stream is open: in an
\* unfiltered call every image carries one position per such record, on the
\* sheet named at i-1, and none for any other MsoDrawing record.
C22_DrawingAttribution ==
    (StreamReturned /\ ~FilterActive) =>
        \A k \in DOMAIN result.images :
            [i \in DOMAIN result.images[k].positions |->
                result.images[k].positions[i].sheet]
              = AttributedSheets(file.body.stream, file.body.sheetNames)

\* An image was returned for a stream with a drawing in an open worksheet
\* sub-stream and one read after the EOF of a worksheet sub-stream.
C22_Witness ==
    /\ StreamReturned /\ ~FilterActive
    /\ result.images # <<>>
    /\ AttributedDrawings(file.body.stream) # {}
    /\ \E j \in DOMAIN file.body.stream :
          /\ file.body.stream[j].type = BIFF_MSODRAWING
          /\ StreamIndexAt(file.body.stream, j) >= 1
          /\ ~StreamOpenAt(file.body.stream, j)

\* An image was returned for a stream with a drawing in the globals
\* sub-stream, which it does not carry.
C22_GlobalsWitness ==
    /\ StreamReturned /\ ~FilterActive
    /\ result.images # <<>>
    /\ AttributedDrawings(file.body.stream) = {}
    /\ \E j \in DOMAIN file.body.stream :
          /\ file.body.stream[j].type = BIFF_MSODRAWING
          /\ StreamIndexAt(file.body.stream, j) = 0

(***************************************************************************)
(* The index of a legacy image.                                            *)
(***************************************************************************)
\* The sound records of the stores from the k-th to the n-th, in order.
RECURSIVE SoundRecordsFrom(_, _, _)
SoundRecordsFrom(stores, k, n) ==
    IF k > n THEN <<>>
    ELSE SubSeq(stores[k].recs, 1, SoundCount(stores[k].length, stores[k].recs))
           \o SoundRecordsFrom(stores, k + 1, n)

\* The BSE records of the global store, in order.
GlobalStoreBses ==
    LET isBse(r) == r.type = ESCHER_BSE
    IN  SelectSeq(SoundRecordsFrom(DamagedDgg.recs, 1,
                      SoundCount(DamagedDgg.length, DamagedDgg.recs)), isBse)

\* The ordinals, among the BSE records, of those that yield an image.
ReadableOrdinals ==
    LET readable(k) == ~BseSkipped(GlobalStoreBses[k])
    IN  SelectSeq([k \in DOMAIN GlobalStoreBses |-> k], readable)

\* C23: the index of an extracted image is the 1-based ordinal of its BSE
\* among the BSE records of the global store, whatever else the store holds;
\* a skipped BSE yields no image and still consumes its index.
C23_IndexIsBseOrdinal ==
    EscherReturned =>
        [i \in DOMAIN result.blips |-> result.blips[i].index] = ReadableOrdinals

\* The claim's case with one store that holds nothing but BSE records.
C23_HoldsForPlainStore ==
    (/\ EscherReturned
     /\ Len(DamagedDgg.recs) = 1
     /\ \A k \in DOMAIN DamagedDgg.recs[1].recs :
            DamagedDgg.recs[1].recs[k].type = ESCHER_BSE) =>
        [i \in DOMAIN result.blips |-> result.blips[i].index] = ReadableOrdinals

(***************************************************************************)
(* Legacy anchors and the images they point at.                            *)
(***************************************************************************)
\* N: the number of BSE records of the global store.
BseCount ==
    LET isBse(r) == r.type = ESCHER_BSE
        inStore(st) == Len(SelectSeq(st.recs, isBse))
        inDgg(dgg) == SumSeq([i \in DOMAIN dgg.recs |-> inStore(dgg.recs[i])])
    IN  SumSeq([i \in DOMAIN file.body.group.recs |->
                   inDgg(file.body.group.recs[i])])

\* The positions of the anchors with blip index n, in discovery order, on
\* the sheets the workbook names and the filter lets through.
AnchoredAt(n) ==
    LET anchors == AllAnchors(file.body.drawings, file.body.sheetNames,
                              args.sheetName)
        mine(a) == a.blipIndex = n
        own == SelectSeq(anchors, mine)
    IN  [i \in DOMAIN own |->
            [sheet |-> own[i].sheetName,
             fromRow |-> own[i].fromRow, fromCol |-> own[i].fromCol,
             toRow |-> own[i].toRow, toCol |-> own[i].toCol]]

\* C24: every emitted position comes from an anchor whose blip index lies in
\* [1, N] and equals the index of the image that carries it, in discovery
\* order; an anchor with any other blip index adds no image and no position.
C24_AnchorsMatchImages ==
    LegacyReturned =>
        \A k \in DOMAIN result.images :
            /\ result.images[k].positions # <<>> =>
                   NameIndex(result.images[k]) \in 1..BseCount
            /\ result.images[k].positions = AnchoredAt(NameIndex(result.images[k]))

\* The claim's case for stores that hold nothing but BSE records.
C24_HoldsForPlainStores ==
    (LegacyReturned /\ Cardinality(StoredPictures) > 0
       /\ \A dgg \in Range(file.body.group.recs) :
              \A st \in Range(dgg.recs) :
                  \A r \in Range(st.recs) : r.type = ESCHER_BSE) =>
        \A k \in DOMAIN result.images :
            /\ result.images[k].positions # <<>> =>
                   NameIndex(result.images[k]) \in 1..BseCount
            /\ result.images[k].positions = AnchoredAt(NameIndex(result.images[k]))

\* The positions follow the anchors whatever the indices are.
C24_PositionsFollowAnchors ==
    LegacyReturned =>
        \A k \in DOMAIN result.images :
            result.images[k].positions = AnchoredAt(NameIndex(result.images[k]))

(***************************************************************************)
(* The drawing parser.                                                     *)
(***************************************************************************)
DrawingParsed == op = "parseSheetDrawings" /\ result.kind = "ok"

\* The SpContainers of the drawing tree, at any depth.
RECURSIVE AllShapes(_)
AllShapes(recs) ==
    IF recs = <<>> THEN <<>>
    ELSE LET r == Head(recs)
         IN  (IF r.type = ESCHER_SP_CONTAINER /\ r.version = 15 THEN <<r>> ELSE <<>>)
               \o (IF r.version = 15 THEN AllShapes(r.recs) ELSE <<>>)
               \o AllShapes(Tail(recs))

\* The ClientAnchors of at least 18 bytes among the children of a shape.
ShapeClientAnchors(sp) ==
    {c \in Range(sp.recs) : c.type = ESCHER_CLIENT_ANCHOR /\ c.length >= 18}

\* The positive blip ids among the properties of the OPT/FOPT children.
ShapeBlipIds(sp) ==
    {p.value : p \in {q \in UNION {Range(c.props) :
                                      c \in {d \in Range(sp.recs) :
                                                d.type \in {ESCHER_OPT, ESCHER_FOPT}}} :
                         q.id % PROP_ID_MASK = PROP_BLIP_ID /\ q.value > 0}}

\* The anchors the shapes of the tree call for: one per shape that has both.
ExpectedAnchors ==
    LET shapes == AllShapes(file.body.buf.recs)
        has(k) == ShapeClientAnchors(shapes[k]) # {} /\ ShapeBlipIds(shapes[k]) # {}
        both == SelectSeq([k \in DOMAIN shapes |-> k], has)
    IN  [i \in DOMAIN both |->
            LET c == CHOOSE x \in ShapeClientAnchors(shapes[both[i]]) : TRUE
            IN  [sheetName |-> args.sheetName,
                 blipIndex |-> CHOOSE v \in ShapeBlipIds(shapes[both[i]]) : TRUE,
                 fromCol |-> c.words[2], fromRow |-> c.words[4],
                 toCol |-> c.words[6], toRow |-> c.words[8]]]

\* How often x occurs in the sequence s.
Occurrences(s, x) == Cardinality({i \in DOMAIN s : s[i] = x})

\* C25: parseSheetDrawings yields exactly one anchor for each SpContainer, at
\* any depth, that has both a ClientAnchor of at least 18 bytes and an
\* OPT/FOPT property 0x0104 with a positive blip index, nothing for any other
\* SpContainer, none twice, with the rectangle (col1, row1, col2, row2) of the
\* payload offsets 2, 6, 10 and 14.
C25_OneAnchorPerPictureShape ==
    DrawingParsed =>
        /\ Len(result.anchors) = Len(ExpectedAnchors)
        /\ \A x \in Range(result.anchors) \cup Range(ExpectedAnchors) :
               Occurrences(result.anchors, x) = Occurrences(ExpectedAnchors, x)

\* A group nested in the group container: its picture shape yields the one
\* anchor, the shape without blip id beside it yields none.
C25_Witness ==
    /\ DrawingParsed
    /\ Len(AllShapes(file.body.buf.recs)) = 2
    /\ Len(file.body.buf.recs) = 1
    /\ file.body.buf.recs[1].type = 61442
    /\ Len(file.body.buf.recs[1].recs[1].recs) = 2
    /\ file.body.buf.recs[1].recs[1].recs[2].type = 61443
    /\ ShapeBlipIds(file.body.buf.recs[1].recs[1].recs[1]) = {}
    /\ ShapeClientAnchors(file.body.buf.recs[1].recs[1].recs[1]) # {}
    /\ result.anchors =
           <<[sheetName |-> "S1", blipIndex |-> 2,
              fromCol |-> 3, fromRow |-> 5, toCol |-> 1, toRow |-> 2]>>

\* A picture shape inside a picture shape: both yield their anchor, once.
C25_NestedWitness ==
    /\ DrawingParsed
    /\ Len(file.body.buf.recs) = 1
    /\ file.body.buf.recs[1].type = 61442
    /\ Len(file.body.buf.recs[1].recs[1].recs) = 1
    /\ Len(AllShapes(file.body.buf.recs)) = 2
    /\ Len(result.anchors) = 2

(***************************************************************************)
(* Path resolution.                                                        *)
(***************************************************************************)
PathResolved == op = "resolveRelativePath" /\ result.kind = "ok"

\* The segment list after the first i segments of the target were applied
\* to the segments of the base.
SegmentsAfter(base, segments, i) ==
    LET stack[j \in 0..i] ==
            IF j = 0 THEN base
            ELSE IF segments[j] = ".."
                 THEN SubSeq(stack[j - 1], 1, Len(stack[j - 1]) - 1)
                 ELSE IF segments[j] = "." THEN stack[j - 1]
                 ELSE stack[j - 1] \o <<segments[j]>>
    IN  stack[i]

\* The number of ".." segments of a segment list.
PopCount(segments) ==
    Cardinality({j \in DOMAIN segments : segments[j] = ".."})

\* C27: resolveRelativePath returns the target without its leading slash
\* when it begins with "/"; otherwise the "/"-join of the base's segments
\* after every segment of the target was applied in order (".." pops, "."
\* is a no-op, anything else is pushed).
C27_ResolveRelativePath ==
    PathResolved =>
        IF args.target # "" /\ CharAt(args.target, 1) = "/"
        THEN result.path = SubSeq(args.target, 2, Len(args.target))
        ELSE result.path =
                 Join(SegmentsAfter(Split(args.baseDir, "/"), Split(args.target, "/"),
                                    Len(Split(args.target, "/"))))

\* A relative target with more ".." segments than the base has segments:
\* the surplus ".." pops nothing.
C27_Witness ==
    /\ PathResolved
    /\ args.target # "" /\ CharAt(args.target, 1) # "/"
    /\ args.baseDir = "a"
    /\ PopCount(Split(args.target, "/")) > Len(Split(args.baseDir, "/"))
    /\ result.path = ""

\* A relative target whose "." is passed over and whose ".." pops the base.
C27_DotWitness ==
    /\ PathResolved
    /\ args.baseDir = "a"
    /\ args.target = "./../"
    /\ result.path = ""

\* A target with a leading slash.
C27_AbsoluteWitness ==
    /\ PathResolved
    /\ args.target = "/a/a"
    /\ result.path = "a/a"

(***************************************************************************)
(* The OOXML drawing parser.                                               *)
(***************************************************************************)
\* An OOXML call on a package given by the drawing part of its sheet
\* returned images.
DrawingReturned == OoxmlReturned /\ "drawing" \in DOMAIN file.body

\* The picture an r:embed id stands for in the rels of the drawing: the file
\* name of its target, None when the rels are absent or lack the id.
EmbeddedPicture(id) ==
    LET rels == file.body.drawing.rels
        entry == {e \in Range(rels.entries) : e.id = id}
    IN  IF ~rels.present \/ entry = {} THEN None
        ELSE LET parts == Split((CHOOSE e \in entry : TRUE).target, "/")
             IN  parts[Len(parts)]

\* The rectangle of an anchor element: a one-cell anchor ends where it starts.
ElementPosition(el) ==
    [sheet |-> "S1", fromRow |-> el.from[1].row, fromCol |-> el.from[1].col,
     toRow |-> IF el.twoCell /\ el.to # <<>> THEN el.to[1].row ELSE el.from[1].row,
     toCol |-> IF el.twoCell /\ el.to # <<>> THEN el.to[1].col ELSE el.from[1].col]

\* The number of r:embed attributes standing for picture `name` in anchor
\* elements of rectangle `pos`.
EmbedCount(name, pos) ==
    LET els == file.body.drawing.anchors
    IN  SumSeq([i \in DOMAIN els |->
                   IF ElementPosition(els[i]) = pos
                   THEN Cardinality({k \in DOMAIN els[i].embeds :
                                        EmbeddedPicture(els[i].embeds[k]) = name})
                   ELSE 0])

\* The number of positions equal to `pos` carried by the images called `name`.
PositionCount(name, pos) ==
    SumSeq([i \in DOMAIN result.images |->
               IF result.images[i].name = name
               THEN Occurrences(result.images[i].positions, pos)
               ELSE 0])

\* Every position a result or a drawing of the model can hold.
DrawingPositions ==
    {ElementPosition(el) : el \in AnchorElementChoices}
      \cup UNION {Range(result.images[i].positions) : i \in DOMAIN result.images}

\* C26: every r:embed of a twoCellAnchor or oneCellAnchor that resolves
\* through the rels of the drawing yields its own anchor with the rectangle
\* of its element (toRow = fromRow and toCol = fromCol for a oneCellAnchor);
\* an id without rels entry, or without rels file, yields none and no error.
C26_EmbedsYieldAnchors ==
    DrawingReturned =>
        \A name \in {"image1.png", "image2.emf"}, pos \in DrawingPositions :
            PositionCount(name, pos) = EmbedCount(name, pos)

\* A one-cell anchor with two embeds of the same picture, one of which is
\* also embedded by a two-cell anchor; an id without rels entry beside them.
C26_Witness ==
    /\ DrawingReturned
    /\ file.body.drawing.rels.present
    /\ \E i \in DOMAIN file.body.drawing.anchors :
          /\ ~file.body.drawing.anchors[i].twoCell
          /\ file.body.drawing.anchors[i].embeds = <<"rId1", "rId1">>
    /\ \E i \in DOMAIN file.body.drawing.anchors :
          /\ file.body.drawing.anchors[i].twoCell
          /\ file.body.drawing.anchors[i].embeds = <<"rId1", "rId9">>
    /\ \E i \in DOMAIN result.images : Len(result.images[i].positions) = 3

\* The rels file of the drawing is absent: no picture carries a position.
C26_NoRelsWitness ==
    /\ DrawingReturned
    /\ ~file.body.drawing.rels.present
    /\ \E i \in DOMAIN file.body.drawing.anchors :
          file.body.drawing.anchors[i].embeds # <<>>
    /\ Len(result.images) = 2
    /\ \A i \in DOMAIN result.images : result.images[i].positions = <<>>

(***************************************************************************)
(* One result entry per stored image.                                      *)
(***************************************************************************)
\* C28: emitted images correspond one-to-one to distinct stored images: no
\* stored image appears twice in one result (an OOXML media entry emitted
\* with positions is not emitted again without), and no two images of one
\* legacy result share a name.  The media entries of a package of the model
\* have different file names, so a stored image is known by its name.
C28_NoImageTwice ==
    ImagesReturned =>
        \A i, j \in DOMAIN result.images :
            result.images[i].name = result.images[j].name => i = j

\* The claim's case for packages whose drawings name their pictures under
\* xl/media/ and for legacy workbooks with a single BStoreContainer; media
\* entries and BSE records are never merged.
C28_HoldsWithoutAlias ==
    /\ (OoxmlReturned
          /\ \A i \in DOMAIN file.body.mappings :
                 StartsWith(file.body.mappings[i].imagePath, "xl/media/")) =>
           /\ \A i, j \in DOMAIN result.images :
                  result.images[i].name = result.images[j].name => i = j
           /\ (~result.truncated /\ ~FilterActive) =>
                  Len(result.images) = Len(PackageMedia)
    /\ (LegacyReturned
          /\ \A dgg \in Range(file.body.group.recs) : Len(dgg.recs) <= 1
          /\ Len(file.body.group.recs) <= 1) =>
           \A i, j \in DOMAIN result.images :
               result.images[i].name = result.images[j].name => i = j

(***************************************************************************)
(* Paging through a sheet.                                                 *)
(***************************************************************************)
Paginating == op = "paginate" /\ result.kind = "ok"

\* The rows received so far, chunk after chunk.
RECURSIVE RowsReceived(_)
RowsReceived(k) ==
    IF k = 0 THEN <<>> ELSE RowsReceived(k - 1) \o pages[k].data

\* The run makes progress, has covered the rows before chunk.rowEnd in order
\* without gap or overlap, ends on the last row, and has taken no more calls
\* than the sheet has rows.
PagingSound ==
    LET sheet == result.currentSheet
    IN  /\ sheet.hasMore =>
               /\ sheet.nextChunk # <<>>
               /\ sheet.nextChunk[1].rowStart > sheet.chunk.rowStart
        /\ RowsReceived(Len(pages)) = [i \in 1..sheet.chunk.rowEnd |-> i - 1]
        /\ ~sheet.hasMore => Len(RowsReceived(Len(pages))) = sheet.totalRows
        /\ Len(pages) <= Max(sheet.totalRows, 1)

\* C29: paging through read_excel from startRow 0, with any maxRows the
\* argument check accepts or none, makes progress and terminates: when
\* hasMore is true nextChunk.rowStart is greater than chunk.rowStart, the
\* chunks cover [0, totalRows) in order without gap or overlap, and after
\* finitely many calls hasMore is false.
C29_PagingTerminates == Paginating => PagingSound

\* One reply continues a run: its chunk holds the rows from chunk.rowStart
\* up to chunk.rowEnd, and either it has more, nextChunk.rowStart being
\* chunk.rowEnd and beyond chunk.rowStart, or chunk.rowEnd is the last row.
PagingStep ==
    LET sheet == result.currentSheet
        chunk == sheet.chunk
    IN  /\ chunk.data = [i \in 1..(chunk.rowEnd - chunk.rowStart) |->
                            chunk.rowStart + i - 1]
        /\ sheet.hasMore =>
               /\ sheet.nextChunk # <<>>
               /\ sheet.nextChunk[1].rowStart = chunk.rowEnd
               /\ chunk.rowStart < chunk.rowEnd
        /\ ~sheet.hasMore => chunk.rowEnd = sheet.totalRows

\* The claim's case for maxRows absent or not negative: every reply of the
\* reader, whatever its startRow, continues a run, and the run of the
\* example is sound.
C29_HoldsForNaturalMaxRows ==
    ((Paginating \/ ReaderReturned)
       /\ (args.maxRows = <<>> \/ args.maxRows[1] >= 0))
        => (PagingStep /\ (Paginating => PagingSound))

\* A run over three rows, two rows per call, has ended with its second call.
C29_CompleteRun ==
    /\ Paginating
    /\ Len(pages) = 2
    /\ ~result.currentSheet.hasMore
    /\ RowsReceived(2) = <<0, 1, 2>>
(***************************************************************************)
(* The tool-call handler.                                                  *)
(***************************************************************************)
ToolCalled == op = "callTool"

KnownTools == {"read_excel", "list_sheets", "get_excel_images"}

\* The arguments pass the check of the tool named in the request: they are an
\* object, filePath is a string, and every optional key the tool takes is
\* absent or of its type.
ArgumentsAccepted ==
    LET a == args.arguments
        optional(key, type) == a[key].type \in {"undefined", type}
    IN  /\ a.type = "object"
        /\ ~a.null
        /\ a.filePath.type = "string"
        /\ args.name \in {"read_excel", "get_excel_images"} => optional("sheetName", "string")
        /\ args.name = "read_excel" =>
               optional("startRow", "number") /\ optional("maxRows", "number")

\* What the engine of the tool does with the request: readExcelFile of the
\* server, the existence test of list_sheets followed by the library's read,
\* extractImages.
EngineOutcome ==
    LET a == DestructuredArgs(args.arguments)
    IN  CASE args.name = "read_excel" -> serverReadExcelFile(file, a)
          [] args.name = "list_sheets" ->
                 IF ~file.exists
                 THEN McpError("InvalidRequest", "File not found", "transport")
                 ELSE serverListSheets(file)
          [] args.name = "get_excel_images" -> extractImages(file, a.sheetName)

EngineRaisedMcpError == EngineOutcome.kind = "error" /\ EngineOutcome.code # "Error"

EngineRaisedOther == EngineOutcome.kind = "error" /\ EngineOutcome.code = "Error"

SameError == result.kind = "error" /\ result.code = EngineOutcome.code
             /\ result.message = EngineOutcome.message

ReportedAs(code) == result.kind = "error" /\ result.code = code

\* The outcome of a request, other exceptions being reported as InternalError
\* for the tools in wrapping.
OutcomeByCase(wrapping) ==
    IF args.name \notin KnownTools THEN ReportedAs("MethodNotFound")
    ELSE IF ~ArgumentsAccepted THEN ReportedAs("InvalidParams")
    ELSE IF EngineRaisedMcpError THEN SameError
    ELSE IF EngineRaisedOther /\ args.name \in wrapping THEN ReportedAs("InternalError")
    ELSE result.kind = "content"

\* C30 as stated: the tool-call handler maps every request to exactly one
\* outcome: an unknown tool name gives MethodNotFound; arguments that fail the
\* check give InvalidParams before the file is touched; an McpError raised by
\* the engine reaches the caller with its code and message unchanged; any
\* other exception from get_excel_images is reported as InternalError;
\* otherwise a content response is returned.
C30_OutcomeAsStated == ToolCalled => OutcomeByCase({"get_excel_images"})

\* C30: the tool-call handler maps every request to exactly one outcome: an
\* unknown tool name gives MethodNotFound; arguments that fail the check give
\* InvalidParams whatever the file is; an McpError raised by the engine
\* reaches the caller with its code and message unchanged; any other
\* exception, from get_excel_images or from the read of list_sheets, is
\* reported as InternalError; otherwise a content response is returned.
C30_OutcomeByCase == ToolCalled => OutcomeByCase({"get_excel_images", "list_sheets"})

\* list_sheets on an existing file the library cannot read ends in
\* InternalError.
C30_ListSheetsWitness ==
    /\ ToolCalled
    /\ args.name = "list_sheets"
    /\ ArgumentsAccepted
    /\ file.exists
    /\ ReportedAs("InternalError")

\* get_excel_images on a file that does not exist: the engine's InvalidRequest
\* "File not found" has reached the caller.
C30_FileNotFoundWitness ==
    /\ ToolCalled
    /\ args.name = "get_excel_images"
    /\ ArgumentsAccepted
    /\ ~file.exists
    /\ ReportedAs("InvalidRequest")
    /\ result.message = "File not found"

\* A checked read_excel request has been answered with content.
C30_ContentWitness ==
    /\ ToolCalled
    /\ args.name = "read_excel"
    /\ result.kind = "content"
    /\ result.text.json.kind = "ok"

====
